---- MODULE Spec2Model ----
(***************************************************************************)
(* RecipeWreck: the recipe text parser (parseRecipe) of the recipe         *)
(* generation route and the chat/role response splitter of the onboarding  *)
(* chat route, modelled as state machines over JavaScript strings.         *)
(*                                                                         *)
(* Strings are TLA+ strings; positions are 0-based as in JavaScript.       *)
(***************************************************************************)
EXTENDS Integers, Sequences, FiniteSets, TLC

(***************************************************************************)
(* Bounds of the model.                                                    *)
(***************************************************************************)
MaxLines == 3
MaxItems == 2
MaxSections == 3

(***************************************************************************)
(* JavaScript string primitives.                                           *)
(***************************************************************************)
Min(S) == CHOOSE m \in S : \A n \in S : m <= n
Max(S) == CHOOSE m \in S : \A n \in S : m >= n

\* String.prototype.substring(a, b) for 0 <= a
Substring(s, a, b) ==
    LET e == IF b > Len(s) THEN Len(s) ELSE b
    IN IF a >= e THEN "" ELSE SubSeq(s, a + 1, e)

\* String.prototype.slice(a) for a >= 0
Slice(s, a) == Substring(s, a, Len(s))

CharAt(s, i) == SubSeq(s, i + 1, i + 1)

\* String.prototype.indexOf(m, from): -1 when absent; a negative from counts as 0
IndexOf(s, m, from) ==
    LET f == IF from < 0 THEN 0 ELSE from
        hits == {i \in f..(Len(s) - Len(m)) : SubSeq(s, i + 1, i + Len(m)) = m}
    IN IF hits = {} THEN -1 ELSE Min(hits)

StartsWith(s, p) == Len(s) >= Len(p) /\ SubSeq(s, 1, Len(p)) = p

\* the characters String.prototype.trim and the regex class \s remove
WhiteSpace == {" ", "\t", "\n", "\r", "\f"}

RECURSIVE TrimStart(_)
TrimStart(s) ==
    IF s /= "" /\ Head(s) \in WhiteSpace THEN TrimStart(Tail(s)) ELSE s

RECURSIVE TrimEnd(_)
TrimEnd(s) ==
    IF s /= "" /\ CharAt(s, Len(s) - 1) \in WhiteSpace
    THEN TrimEnd(Substring(s, 0, Len(s) - 1)) ELSE s

Trim(s) == TrimEnd(TrimStart(s))

UpperCase == "ABCDEFGHIJKLMNOPQRSTUVWXYZ"
LowerCase == "abcdefghijklmnopqrstuvwxyz"

LowerOf == [c \in {CharAt(UpperCase, i) : i \in 0..25} |->
                CharAt(LowerCase, IndexOf(UpperCase, c, 0))]

LowerChar(c) == IF c \in DOMAIN LowerOf THEN LowerOf[c] ELSE c

RECURSIVE ToLowerCase(_)
ToLowerCase(s) ==
    IF s = "" THEN "" ELSE LowerChar(Head(s)) \o ToLowerCase(Tail(s))

\* s.replace(/[...]/g, ""): every character of the class is removed
RECURSIVE RemoveChars(_, _)
RemoveChars(s, class) ==
    IF s = "" THEN ""
    ELSE (IF Head(s) \in class THEN "" ELSE Head(s)) \o RemoveChars(Tail(s), class)

\* length of the longest prefix of s made of characters of the class
SpanLen(s, class) ==
    LET stop == {i \in 0..(Len(s) - 1) : CharAt(s, i) \notin class}
    IN IF stop = {} THEN Len(s) ELSE Min(stop)

\* String.prototype.split("\n")
RECURSIVE Split(_)
Split(s) ==
    LET i == IndexOf(s, "\n", 0)
    IN IF i = -1 THEN <<s>>
       ELSE <<Substring(s, 0, i)>> \o Split(Slice(s, i + 1))

\* Array.prototype.join(sep)
RECURSIVE Join(_, _)
Join(ss, sep) ==
    IF ss = <<>> THEN ""
    ELSE IF Len(ss) = 1 THEN ss[1]
    ELSE ss[1] \o sep \o Join(Tail(ss), sep)

\* a string of n copies of c, built by doubling
RECURSIVE Rep(_, _)
Rep(c, n) ==
    IF n = 0 THEN ""
    ELSE IF n % 2 = 0 THEN LET h == Rep(c, n \div 2) IN h \o h
    ELSE c \o Rep(c, n - 1)

\* the sequences over S of length 0..n
SeqsUpTo(S, n) == UNION {[1..k -> S] : k \in 0..n}

(***************************************************************************)
(* parseRecipe, in its two versions: with the Markdown stripping           *)
(* ("md", unnamed/part_008) and without it ("plain", api/generate/route.ts)*)
(***************************************************************************)
\* the back quote cannot be written in a TLA+ string literal: the model writes
\* the character as "~", which no text of the model uses for anything else
BackQuote == "~"
Markdown == {"*", "_", BackQuote}
Digits == {"0", "1", "2", "3", "4", "5", "6", "7", "8", "9"}
Versions == {"md", "plain"}
DefaultTitle == "Untitled Wreck"

\* raw.split("\n").map((l) => l.trim()).filter(Boolean)
SplitLines(raw) ==
    LET parts == Split(raw)
        trimmed == [i \in 1..Len(parts) |-> Trim(parts[i])]
    IN SelectSeq(trimmed, LAMBDA l : l /= "")

\* line.replace(/[*_`]/g, "").trim(); the plain version matches the line itself
Clean(version, line) ==
    IF version = "md" THEN Trim(RemoveChars(line, Markdown)) ELSE line

\* s.replace(/^[-*]\s*/, "")
StripBullet(s) ==
    IF s /= "" /\ Head(s) \in {"-", "*"}
    THEN Slice(s, 1 + SpanLen(Tail(s), WhiteSpace))
    ELSE s

\* s.replace(/^\d+\.\s*/, "")
StripNumber(s) ==
    LET d == SpanLen(s, Digits)
    IN IF d >= 1 /\ CharAt(s, d) = "."
       THEN Slice(s, d + 1 + SpanLen(Slice(s, d + 1), WhiteSpace))
       ELSE s

\* InitialRecipe with the loop starting inside the ingredients section
InitialRecipe_ModeIngredients ==
    [title |-> DefaultTitle, ingredients |-> <<>>, steps |-> <<>>,
     mode |-> "ingredients"]

InitialRecipe ==
    [title |-> DefaultTitle, ingredients |-> <<>>, steps |-> <<>>, mode |-> "none"]

\* ParseLine with a title line leaving the mode as it is
ParseLine_TitleKeepsMode(version, st, line) ==
    LET clean == Clean(version, line)
        lower == ToLowerCase(clean)
    IN IF StartsWith(lower, "title:")
         THEN [st EXCEPT !.title = Trim(Slice(clean, 6))]
       ELSE IF StartsWith(lower, "ingredients")
         THEN [st EXCEPT !.mode = "ingredients"]
       ELSE IF StartsWith(lower, "steps")
         THEN [st EXCEPT !.mode = "steps"]
       ELSE IF st.mode = "ingredients"
         THEN [st EXCEPT !.ingredients = Append(@, StripBullet(clean))]
       ELSE IF st.mode = "steps"
         THEN [st EXCEPT !.steps = Append(@, StripNumber(clean))]
       ELSE st

\* ParseLine with the first title kept: a later title: line changes nothing
ParseLine_FirstTitleWins(version, st, line) ==
    LET clean == Clean(version, line)
        lower == ToLowerCase(clean)
    IN IF StartsWith(lower, "title:")
         THEN IF st.title = DefaultTitle
              THEN [st EXCEPT !.title = Trim(Slice(clean, 6)), !.mode = "none"]
              ELSE [st EXCEPT !.mode = "none"]
       ELSE IF StartsWith(lower, "ingredients")
         THEN [st EXCEPT !.mode = "ingredients"]
       ELSE IF StartsWith(lower, "steps")
         THEN [st EXCEPT !.mode = "steps"]
       ELSE IF st.mode = "ingredients"
         THEN [st EXCEPT !.ingredients = Append(@, StripBullet(clean))]
       ELSE IF st.mode = "steps"
         THEN [st EXCEPT !.steps = Append(@, StripNumber(clean))]
       ELSE st

\* ParseLine with a section header starting its list afresh
ParseLine_HeaderClears(version, st, line) ==
    LET clean == Clean(version, line)
        lower == ToLowerCase(clean)
    IN IF StartsWith(lower, "title:")
         THEN [st EXCEPT !.title = Trim(Slice(clean, 6)), !.mode = "none"]
       ELSE IF StartsWith(lower, "ingredients")
         THEN [st EXCEPT !.mode = "ingredients", !.ingredients = <<>>]
       ELSE IF StartsWith(lower, "steps")
         THEN [st EXCEPT !.mode = "steps", !.steps = <<>>]
       ELSE IF st.mode = "ingredients"
         THEN [st EXCEPT !.ingredients = Append(@, StripBullet(clean))]
       ELSE IF st.mode = "steps"
         THEN [st EXCEPT !.steps = Append(@, StripNumber(clean))]
       ELSE st

\* the body of the for loop, applied to one line
ParseLine(version, st, line) ==
    LET clean == Clean(version, line)
        lower == ToLowerCase(clean)
    IN IF StartsWith(lower, "title:")
         THEN [st EXCEPT !.title = Trim(Slice(clean, 6)), !.mode = "none"]
       ELSE IF StartsWith(lower, "ingredients")
         THEN [st EXCEPT !.mode = "ingredients"]
       ELSE IF StartsWith(lower, "steps")
         THEN [st EXCEPT !.mode = "steps"]
       ELSE IF st.mode = "ingredients"
         THEN [st EXCEPT !.ingredients = Append(@, StripBullet(clean))]
       ELSE IF st.mode = "steps"
         THEN [st EXCEPT !.steps = Append(@, StripNumber(clean))]
       ELSE st

RECURSIVE ParseLines(_, _, _)
ParseLines(version, st, ls) ==
    IF ls = <<>> THEN st
    ELSE ParseLines(version, ParseLine(version, st, Head(ls)), Tail(ls))

parseRecipe(version, raw) ==
    LET st == ParseLines(version, InitialRecipe, SplitLines(raw))
    IN [title |-> st.title, ingredients |-> st.ingredients, steps |-> st.steps]

(***************************************************************************)
(* Model texts handed to parseRecipe.  A free text is any sequence of at   *)
(* most MaxLines lines of LinePool; a recipe text follows the prompt's     *)
(* template (title line, Ingredients section, Steps section) with the      *)
(* header lines wrapped in a Markdown decoration.                          *)
(***************************************************************************)
LinePool ==
    { "Title: Pie", "**TITLE:** ", "Ingredients:", "_Steps_", "- Butter\r",
      "2. Mix well", " \t", "* steps ahead" }

Titles == {"Deep-Fried Regret", "Deep_Fried"}
ItemTexts == {"Butter", "snake_case", "Steps ahead"}
StepTexts == {"Mix", "Fry *fast*"}
Bullets == {"- ", "* "}
Decos == {"", "**", "_"}

FreeDocs ==
    { [kind |-> "free", lines |-> ls, title |-> "", items |-> <<>>,
       steps |-> <<>>, bullet |-> "", deco |-> ""] :
      ls \in SeqsUpTo(LinePool, MaxLines) }

RecipeDocs ==
    { [kind |-> "recipe", lines |-> <<>>, title |-> t, items |-> is,
       steps |-> ss, bullet |-> b, deco |-> d] :
      t \in Titles, is \in SeqsUpTo(ItemTexts, MaxItems),
      ss \in SeqsUpTo(StepTexts, MaxItems), b \in Bullets, d \in Decos }

\* texts with several title lines and repeated sections: a sequence of at most
\* MaxSections pieces, each a title line, a header with a line under it, or a
\* line alone
SectionPool ==
    { <<"Title: Pie">>, <<"title:   Tart">>, <<"Title: **">>,
      <<"Ingredients:", "- Butter">>, <<"INGREDIENTS (more)", "* Lard">>,
      <<"Steps:", "1. Fry">>, <<"steps", "2. Eat">>,
      <<"Serve cold">> }

RECURSIVE Flatten(_)
Flatten(ss) == IF ss = <<>> THEN <<>> ELSE Head(ss) \o Flatten(Tail(ss))

SectionDocs ==
    { [kind |-> "sections", lines |-> Flatten(ss), title |-> "", items |-> <<>>,
       steps |-> <<>>, bullet |-> "", deco |-> ""] :
      ss \in SeqsUpTo(SectionPool, MaxSections) }

Docs == FreeDocs \cup RecipeDocs \cup SectionDocs

\* the decimal numeral of a step number
Numeral(n) ==
    IF n < 10 THEN CharAt("0123456789", n)
    ELSE CharAt("0123456789", n \div 10) \o CharAt("0123456789", n % 10)

\* the text of a document; a recipe text is laid out as the prompt asks
Render(doc) ==
    IF doc.kind \in {"free", "sections"} THEN Join(doc.lines, "\n")
    ELSE Join(
           << doc.deco \o "Title:" \o doc.deco \o " " \o doc.title, "",
              doc.deco \o "Ingredients:" \o doc.deco >>
           \o [i \in 1..Len(doc.items) |-> doc.bullet \o doc.items[i]]
           \o << "", doc.deco \o "Steps:" \o doc.deco >>
           \o [i \in 1..Len(doc.steps) |-> Numeral(i) \o ". " \o doc.steps[i]],
           "\n")

Undecorated(doc) == [doc EXCEPT !.deco = ""]

(***************************************************************************)
(* State.                                                                  *)
(***************************************************************************)
\* parseRecipe
VARIABLES
    version,      \* which parseRecipe runs: "md" or "plain"
    doc,          \* the document the model text was rendered from
    raw,          \* parseRecipe's argument
    rpc,          \* position in parseRecipe: "start", "loop", "done"
    lines,        \* const lines
    idx,          \* position of the for loop in lines (1-based)
    title,        \* let title
    ingredients,  \* const ingredients
    steps,        \* const steps
    mode,         \* let mode
    result        \* the returned record, Null before the return

recipeVars ==
    <<version, doc, raw, rpc, lines, idx, title, ingredients, steps, mode, result>>

\* the chat route
VARIABLES
    creq,                 \* the request: its body
    apiKey,               \* whether GOOGLE_AI_API_KEY is set
    cpc,                  \* position in POST
    message,              \* const message (sanitized)
    conversationHistory,  \* const conversationHistory (validated, capped)
    formattedHistory,     \* const formattedHistory, part of the model prompt
    llm,                  \* the model call: "none", "threw", "returned"
    fullLlmResponse,      \* let fullLlmResponse
    conversationalText,   \* let conversationalText
    finalAiRoleJson,      \* let finalAiRoleJson
    dbOutcome,            \* the insert: "none", "connectFailed", "createFailed", "saved"
    response,             \* the HTTP response, Null until sent
    now,                  \* the clock
    store,                \* the ai_roles collection
    run,                  \* "first", or "repeat" of the same request
    prev                  \* the first run's inputs and response, for the repeat

chatVars ==
    <<creq, apiKey, cpc, message, conversationHistory, formattedHistory, llm,
      fullLlmResponse,
      conversationalText, finalAiRoleJson, dbOutcome, response, now, store,
      run, prev>>

\* the recipe-generation route
VARIABLES
    greq,          \* the request: whether its body is JSON, and the body
    genApiKey,     \* whether GOOGLE_GENAI_API_KEY is set
    gversion,      \* which version of the route runs: "md" or "plain"
    gpc,           \* position in POST
    prompt,        \* const { prompt }
    textCall,      \* generateContent: "none", "inflight", "returned", "threw"
    textRes,       \* const textRes
    rawText,       \* const rawText
    recipe,        \* const { title, ingredients, steps }
    imageCall,     \* generateImages: "none", "inflight", "returned", "threw"
    imgRes,        \* const imgRes
    imagePrompt,   \* the prompt given to generateImages
    gresponse      \* the HTTP response, Null until sent

genVars ==
    <<greq, genApiKey, gversion, gpc, prompt, textCall, textRes, rawText, recipe,
      imageCall, imgRes, imagePrompt, gresponse>>

\* requests in flight at the same time, and what they share
VARIABLES
    handlers,      \* the locals of every invocation of a POST handler
    cached,        \* mongodb.ts: cached.conn and cached.promise (0 for null)
    connects,      \* the mongoose.connect attempts: "pending", "resolved", "rejected"
    aiRoles        \* the ai_roles collection the invocations insert into

concVars == <<handlers, cached, connects, aiRoles>>

\* PUT /api/ai-roles/[roleId]
VARIABLES
    ureq,          \* the request: roleId, whether its body is JSON, and the body
    upc,           \* position in PUT
    roles,         \* the ai_roles collection the route updates
    uresponse,     \* the HTTP response, Null until sent
    ulog           \* the name of the error console.error has logged, "" if none

updVars == <<ureq, upc, roles, uresponse, ulog>>

\* the onboarding page (handleSendMessage)
VARIABLES
    toasts,          \* the toast shown for the answer to each run of the request
    createdAiRoles   \* the page's state createdAiRoles

pageVars == <<toasts, createdAiRoles>>

vars == <<recipeVars, chatVars, genVars, concVars, updVars, pageVars>>

Null == [null |-> TRUE]

\* the parser is not called
RecipeIdle ==
    /\ version = "md"
    /\ doc = [kind |-> "free", lines |-> <<>>, title |-> "", items |-> <<>>,
              steps |-> <<>>, bullet |-> "", deco |-> ""]
    /\ raw = ""
    /\ rpc = "idle"
    /\ lines = <<>>
    /\ idx = 1
    /\ title = InitialRecipe.title
    /\ ingredients = <<>>
    /\ steps = <<>>
    /\ mode = "none"
    /\ result = Null

\* the chat route is not called
ChatIdle ==
    /\ creq = Null
    /\ apiKey = FALSE
    /\ cpc = "idle"
    /\ message = ""
    /\ conversationHistory = <<>>
    /\ formattedHistory = ""
    /\ llm = "none"
    /\ fullLlmResponse = ""
    /\ conversationalText = ""
    /\ finalAiRoleJson = Null
    /\ dbOutcome = "none"
    /\ response = Null
    /\ now = 1
    /\ store = <<>>
    /\ run = "first"
    /\ prev = Null

\* the recipe-generation route is not called
GenIdle ==
    /\ greq = Null
    /\ genApiKey = FALSE
    /\ gversion = "md"
    /\ gpc = "idle"
    /\ prompt = ""
    /\ textCall = "none"
    /\ textRes = Null
    /\ rawText = ""
    /\ recipe = Null
    /\ imageCall = "none"
    /\ imgRes = Null
    /\ imagePrompt = ""
    /\ gresponse = Null

\* no concurrent invocations
ConcIdle ==
    /\ handlers = <<>>
    /\ cached = [conn |-> 0, promise |-> 0]
    /\ connects = <<>>
    /\ aiRoles = <<>>

\* PUT is not called
UpdIdle ==
    /\ ureq = Null
    /\ upc = "idle"
    /\ roles = <<>>
    /\ uresponse = Null
    /\ ulog = ""

\* the page as mounted: nothing sent, nothing received
PageIdle ==
    /\ toasts = [first |-> "unanswered", repeat |-> "unanswered"]
    /\ createdAiRoles = <<>>

(***************************************************************************)
(* parseRecipe as a state machine: one step per statement group.           *)
(***************************************************************************)
RecipeInit ==
    /\ version \in Versions
    /\ doc \in Docs
    /\ raw = Render(doc)
    /\ rpc = "start"
    /\ lines = <<>>
    /\ idx = 1
    /\ title = InitialRecipe.title
    /\ ingredients = InitialRecipe.ingredients
    /\ steps = InitialRecipe.steps
    /\ mode = InitialRecipe.mode
    /\ result = Null
    /\ ChatIdle
    /\ GenIdle
    /\ ConcIdle
    /\ UpdIdle
    /\ PageIdle

\* const lines = raw.split("\n").map((l) => l.trim()).filter(Boolean)
RecipeSplit ==
    /\ rpc = "start"
    /\ lines' = SplitLines(raw)
    /\ rpc' = "loop"
    /\ UNCHANGED <<version, doc, raw, idx, title, ingredients, steps, mode, result>>
    /\ UNCHANGED <<chatVars, genVars, concVars, updVars, pageVars>>

\* one iteration of for (const line of lines)
RecipeLine ==
    /\ rpc = "loop"
    /\ idx <= Len(lines)
    /\ LET st == ParseLine(version,
                           [title |-> title, ingredients |-> ingredients,
                            steps |-> steps, mode |-> mode],
                           lines[idx])
       IN /\ title' = st.title
          /\ ingredients' = st.ingredients
          /\ steps' = st.steps
          /\ mode' = st.mode
    /\ idx' = idx + 1
    /\ UNCHANGED <<version, doc, raw, rpc, lines, result>>
    /\ UNCHANGED <<chatVars, genVars, concVars, updVars, pageVars>>

\* RecipeReturn with the steps left out of the returned record
RecipeReturn_NoSteps ==
    /\ rpc = "loop"
    /\ idx > Len(lines)
    /\ result' = [title |-> title, ingredients |-> ingredients]
    /\ rpc' = "done"
    /\ UNCHANGED <<version, doc, raw, lines, idx, title, ingredients, steps, mode>>
    /\ UNCHANGED <<chatVars, genVars, concVars, updVars, pageVars>>

\* return { title, ingredients, steps }
RecipeReturn ==
    /\ rpc = "loop"
    /\ idx > Len(lines)
    /\ result' = [title |-> title, ingredients |-> ingredients, steps |-> steps]
    /\ rpc' = "done"
    /\ UNCHANGED <<version, doc, raw, lines, idx, title, ingredients, steps, mode>>
    /\ UNCHANGED <<chatVars, genVars, concVars, updVars, pageVars>>

RecipeNext == RecipeSplit \/ RecipeLine \/ RecipeReturn


(***************************************************************************)
(* Properties of parseRecipe (SpecRecipe).                                 *)
(***************************************************************************)
IsString(v) == v \in STRING
IsStringList(v) == DOMAIN v = 1..Len(v) /\ \A i \in 1..Len(v) : IsString(v[i])

HeaderWords == {"title:", "ingredients", "steps"}

\* no line of the text, once trimmed and stripped of Markdown, starts with a
\* header word in any letter case
NoHeaderLine(text) ==
    \A i \in 1..Len(Split(text)) :
        LET shown == ToLowerCase(Trim(RemoveChars(Trim(Split(text)[i]), Markdown)))
        IN \A w \in HeaderWords : ~StartsWith(shown, w)

\* the locals of parseRecipe hold values of their declared types
RecipeTypeOK ==
    /\ rpc \in {"start", "loop", "done"}
    /\ mode \in {"none", "ingredients", "steps"}
    /\ idx \in 1..(Len(lines) + 1)
    /\ IsString(title)
    /\ IsStringList(ingredients)
    /\ IsStringList(steps)

\* C1: parseRecipe is total: on every input (empty, blank, without headers,
\* headers in any order, any Markdown) its locals stay well typed at every
\* step, and what it returns is a record with exactly a string title and two
\* lists of strings, ingredients and steps.
C1_Total ==
    /\ RecipeTypeOK
    /\ rpc = "done" =>
          /\ DOMAIN result = {"title", "ingredients", "steps"}
          /\ IsString(result.title)
          /\ IsStringList(result.ingredients)
          /\ IsStringList(result.steps)

\* C1 witness: a blank but non-empty text has been parsed to the end
C1_Witness == rpc = "done" /\ raw /= "" /\ lines = <<>>

\* C2: for a text made of a Title: line, an Ingredients section of bulleted
\* lines and a Steps section of numbered lines, the version with the Markdown
\* stripping returns exactly the title text, the item texts and the step texts
\* the document was written from, unchanged and in order.
C2_ExactRecipe ==
    (rpc = "done" /\ version = "md" /\ doc.kind = "recipe" /\ doc.deco = "") =>
        result = [title |-> doc.title, ingredients |-> doc.items, steps |-> doc.steps]

\* C3: when no line starts with title:, ingredients or steps, parseRecipe
\* returns the placeholder title and two empty lists.
C3_NoHeaders ==
    (rpc = "done" /\ NoHeaderLine(raw)) =>
        result = [title |-> "Untitled Wreck", ingredients |-> <<>>, steps |-> <<>>]

\* C3 witness: a text with non-blank lines and no header has been parsed
C3_Witness == rpc = "done" /\ NoHeaderLine(raw) /\ lines /= <<>>

\* C4: the parseRecipe of the recipe endpoint (api/generate/route.ts) returns
\* for a text with decorated header lines what it returns for the same text
\* with the decoration taken off.
C4_DecoratedHeaders ==
    (rpc = "done" /\ version = "plain" /\ doc.kind = "recipe") =>
        result = parseRecipe(version, Render(Undecorated(doc)))

(***************************************************************************)
(* JavaScript values as they come out of JSON.parse and of a request body. *)
(***************************************************************************)
Undefined == [t |-> "undefined"]
JNull == [t |-> "null"]
JStr(s) == [t |-> "string", s |-> s]
JNum(n) == [t |-> "number", n |-> n]
JArr(a) == [t |-> "array", a |-> a]
JObj(f) == [t |-> "object", f |-> f]

\* ToBoolean
Truthy(v) ==
    CASE v.t = "string" -> v.s /= ""
      [] v.t = "number" -> v.n /= 0
      [] v.t \in {"undefined", "null"} -> FALSE
      [] OTHER -> TRUE

\* String(v), also the conversion a template literal applies
RECURSIVE ToStr(_)
ToStr(v) ==
    CASE v.t = "string" -> v.s
      [] v.t = "number" -> Numeral(v.n)
      [] v.t = "array" -> Join([i \in 1..Len(v.a) |-> ToStr(v.a[i])], ",")
      [] v.t = "object" -> "[object Object]"
      [] OTHER -> v.t

\* the keys of the model's objects, in the order they are written
KeyOrder == <<"title", "description", "systemPromptText", "category", "tags">>

\* JSON.stringify
RECURSIVE Stringify(_)
Stringify(v) ==
    CASE v.t = "string" -> "\"" \o v.s \o "\""
      [] v.t = "number" -> Numeral(v.n)
      [] v.t = "array" ->
           "[" \o Join([i \in 1..Len(v.a) |-> Stringify(v.a[i])], ",") \o "]"
      [] v.t = "object" ->
           LET keys == SelectSeq(KeyOrder, LAMBDA k : k \in DOMAIN v.f)
           IN "{" \o Join([i \in 1..Len(keys) |->
                             "\"" \o keys[i] \o "\":" \o Stringify(v.f[keys[i]])],
                          ",") \o "}"
      [] OTHER -> "null"

\* the objects the language model is taken to write between the markers
BaseRole ==
    [ title |-> JStr("Joke Bot"), description |-> JStr("d"),
      systemPromptText |-> JStr("p"), category |-> JStr("Creative"),
      tags |-> JArr(<<JStr("Fun"), JStr("AI Bots")>>) ]

Without(f, k) == [x \in (DOMAIN f) \ {k} |-> f[x]]

LongTitle == Rep("T", 101)

RoleObjects ==
    { JObj(BaseRole),
      JObj([BaseRole EXCEPT !.category = JStr("Cooking")]),
      JObj([BaseRole EXCEPT !.category = JStr("Error")]),
      JObj([BaseRole EXCEPT !.category = JStr("")]),
      JObj([BaseRole EXCEPT !.title = JStr("")]),
      JObj([BaseRole EXCEPT !.title = JNum(5)]),
      JObj([BaseRole EXCEPT !.title = JStr(LongTitle)]),
      JObj([BaseRole EXCEPT !.title = JStr("Error: none")]),
      JObj([BaseRole EXCEPT !.tags = JStr("fun")]),
      JObj([BaseRole EXCEPT !.tags = JArr(<<JNum(7), JStr("X")>>)]),
      JObj(Without(BaseRole, "tags")),
      JObj(Without(BaseRole, "description")) }

JsonUniverse == RoleObjects \cup {JNull, JNum(5)}

JsonText == [v \in JsonUniverse |-> Stringify(v)]

\* JSON.parse over the texts of the model: the value whose JSON text this is,
\* or a SyntaxError
JSONParse(text) ==
    IF \E v \in JsonUniverse : JsonText[v] = text
    THEN [ok |-> TRUE, value |-> CHOOSE v \in JsonUniverse : JsonText[v] = text]
    ELSE [ok |-> FALSE, message |-> "Unexpected token in JSON"]

\* obj.key: a TypeError on null and undefined, undefined where there is no
\* such property
CanRead(v) == v.t \notin {"null", "undefined"}
Get(v, k) ==
    IF v.t = "object" /\ k \in DOMAIN v.f THEN v.f[k] ELSE Undefined

(***************************************************************************)
(* The onboarding chat route (unnamed/part_010): its helpers.              *)
(***************************************************************************)
MaxMessageLength == 2000
MaxHistoryTurns == 20
EchoLength == 500
TitleEchoLength == 50
MaxTitleLength == 100
MaxDescriptionLength == 500
MaxSystemPromptLength == 10000

jsonStartMarker == "---JSON_START---"
jsonEndMarker == "---JSON_END---"

Categories ==
    { "Productivity", "Creative", "Education", "Development", "Entertainment",
      "Health & Wellness", "Custom" }

\* text.replace(/[<>]/g, '').substring(0, maxLength)
sanitizeInput(text) ==
    Substring(RemoveChars(text, {"<", ">"}), 0, MaxMessageLength)

\* String(Date.now() + Math.random()): the clock reading and the random draw
TempId(clock, rnd) == "tmp-" \o Numeral(clock) \o "." \o Numeral(rnd)

\* new Date(clock).toISOString()
IsoTime(clock) == "2025-06-08T00:00:" \o Numeral(10 + clock) \o "Z"

\* mockFallbackAiRole quoting the temporary id in the description
mockFallbackAiRole_IdInDescription(errorMessage, userInput, clock, rnd) ==
    [ id |-> TempId(clock, rnd),
      title |-> JStr(IF userInput /= ""
                     THEN "Error: AI Role for \""
                          \o Substring(userInput, 0, TitleEchoLength) \o "\""
                     ELSE "Error: AI Role Generation Failed"),
      description |-> JStr("Failed to generate AI Role " \o TempId(clock, rnd)
                           \o ". " \o errorMessage),
      systemPromptText |-> JStr("Error: Could not generate system prompt."),
      category |-> JStr("Error"),
      tags |-> <<"error", "fallback">>,
      version |-> 1,
      createdAt |-> IsoTime(clock),
      createdBy |-> "api_error_handler" ]

mockFallbackAiRole(errorMessage, userInput, clock, rnd) ==
    [ id |-> TempId(clock, rnd),
      title |-> JStr(IF userInput /= ""
                     THEN "Error: AI Role for \""
                          \o Substring(userInput, 0, TitleEchoLength) \o "\""
                     ELSE "Error: AI Role Generation Failed"),
      description |-> JStr("Failed to generate AI Role. " \o errorMessage),
      systemPromptText |-> JStr("Error: Could not generate system prompt."),
      category |-> JStr("Error"),
      tags |-> <<"error", "fallback">>,
      version |-> 1,
      createdAt |-> IsoTime(clock),
      createdBy |-> "api_error_handler" ]

\* the basic validation of required fields from the LLM
HasRequiredFields(parsed) ==
    /\ Truthy(Get(parsed, "title"))
    /\ Truthy(Get(parsed, "description"))
    /\ Truthy(Get(parsed, "systemPromptText"))
    /\ Truthy(Get(parsed, "category"))
    /\ Get(parsed, "tags").t = "array"

\* LowerTags without the lower-casing
LowerTags_AsWritten(tags) == [i \in 1..Len(tags.a) |-> ToStr(tags.a[i])]

\* parsedAiRoleBase.tags.map(tag => String(tag).toLowerCase())
LowerTags(tags) == [i \in 1..Len(tags.a) |-> ToLowerCase(ToStr(tags.a[i]))]

\* the candidate built from the parsed object
RoleFromLlm(parsed, clock, rnd) ==
    [ id |-> TempId(clock, rnd),
      title |-> Get(parsed, "title"),
      description |-> Get(parsed, "description"),
      systemPromptText |-> Get(parsed, "systemPromptText"),
      category |-> IF Truthy(Get(parsed, "category"))
                   THEN Get(parsed, "category") ELSE JStr("Custom"),
      tags |-> LowerTags(Get(parsed, "tags")),
      version |-> 1,
      createdAt |-> IsoTime(clock),
      createdBy |-> "llm_onboarding_session" ]

MalformedNotice ==
    "AI response received, but AI Role JSON was malformed. Raw LLM output (first 500 chars): "
IncompleteNotice ==
    "AI response received, but AI Role JSON was incomplete. Raw LLM output (first 500 chars): "
SeparationNotice ==
    "Received a response from the AI, but had trouble separating the conversational part."

\* OrEcho echoing the whole response instead of its first 500 characters
OrEcho_Whole(text, notice, full) ==
    IF text /= "" THEN text ELSE notice \o full \o "..."

\* OrEcho putting the echo in place of the text before the marker as well
OrEcho_Always(text, notice, full) ==
    notice \o Substring(full, 0, EchoLength) \o "..."

\* conversationalText || `${notice}${fullLlmResponse.substring(0, 500)}...`
OrEcho(text, notice, full) ==
    IF text /= "" THEN text ELSE notice \o Substring(full, 0, EchoLength) \o "..."

\* EndSearchFrom with the search starting at the start marker itself
EndSearchFrom_AtStart(jsonStartIndex) == jsonStartIndex

\* where the end marker is looked for
EndSearchFrom(jsonStartIndex) == jsonStartIndex + Len(jsonStartMarker)

\* the try/catch around JSON.parse and the building of the candidate
RoleFromJson(aiRoleJsonString, conv, full, userInput, clock, rnd) ==
    LET parsed == JSONParse(aiRoleJsonString)
    IN IF ~parsed.ok
         THEN [ text |-> OrEcho(conv, MalformedNotice, full),
                role |-> mockFallbackAiRole("Failed to parse JSON: " \o parsed.message,
                                            userInput, clock, rnd) ]
       ELSE IF ~CanRead(parsed.value)
         THEN [ text |-> OrEcho(conv, MalformedNotice, full),
                role |-> mockFallbackAiRole(
                           "Failed to parse JSON: Cannot read properties of null (reading 'title')",
                           userInput, clock, rnd) ]
       ELSE IF HasRequiredFields(parsed.value)
         THEN [ text |-> conv, role |-> RoleFromLlm(parsed.value, clock, rnd) ]
       ELSE [ text |-> OrEcho(conv, IncompleteNotice, full),
              role |-> mockFallbackAiRole("Generated JSON missing required fields.",
                                          userInput, clock, rnd) ]

\* from the search of the markers to the candidate
SplitResponse(full, userInput, clock, rnd) ==
    LET jsonStartIndex == IndexOf(full, jsonStartMarker, 0)
        jsonEndIndex == IndexOf(full, jsonEndMarker, EndSearchFrom(jsonStartIndex))
    IN IF jsonStartIndex /= -1 /\ jsonEndIndex /= -1
       THEN RoleFromJson(
              Trim(Substring(full, jsonStartIndex + Len(jsonStartMarker), jsonEndIndex)),
              Trim(Substring(full, 0, jsonStartIndex)),
              full, userInput, clock, rnd)
       ELSE [ text |-> Trim(full),
              role |-> mockFallbackAiRole("JSON markers not found in LLM response.",
                                          userInput, clock, rnd) ]

\* the fallback for an empty conversational text: the test reads
\* finalAiRoleJson.title.startsWith, a TypeError when the title is no string
SeparationThrows(text, full, role) ==
    text = "" /\ full /= "" /\ role.title.t /= "string"

WithSeparationNotice(text, full, role) ==
    IF text = "" /\ full /= "" /\ ~StartsWith(role.title.s, "Error:")
    THEN SeparationNotice ELSE text

\* AiRoleZodSchema.safeParse(dataFromLlmForZod).success
BoundedString(v, max) == v.t = "string" /\ Len(v.s) >= 1 /\ Len(v.s) <= max

ZodSuccess(role) ==
    /\ BoundedString(role.title, MaxTitleLength)
    /\ BoundedString(role.description, MaxDescriptionLength)
    /\ BoundedString(role.systemPromptText, MaxSystemPromptLength)
    /\ role.category.t = "string" /\ role.category.s \in Categories

WarningPrefix == "Warning: Invalid LLM Data - "

\* the validation Mongoose applies in AiRole.create: String paths are cast,
\* trimmed, required and bounded, category is one of the enum
CastsToString(v) == v.t \in {"string", "number"}
MongoosePath(v, max) ==
    CastsToString(v) /\ Trim(ToStr(v)) /= "" /\ Len(Trim(ToStr(v))) <= max

MongooseValid(data) ==
    /\ MongoosePath(data.title, MaxTitleLength)
    /\ MongoosePath(data.description, MaxDescriptionLength)
    /\ MongoosePath(data.systemPromptText, MaxSystemPromptLength)
    /\ CastsToString(data.category) /\ Trim(ToStr(data.category)) \in Categories
    /\ data.version >= 1
    /\ Trim(data.createdBy) /= ""

\* the document as stored: strings cast and trimmed, tags lower-cased
StoredDocument(data, oid, at) ==
    [ id |-> oid,
      title |-> Trim(ToStr(data.title)),
      description |-> Trim(ToStr(data.description)),
      systemPromptText |-> Trim(ToStr(data.systemPromptText)),
      category |-> Trim(ToStr(data.category)),
      tags |-> [i \in 1..Len(data.tags) |-> ToLowerCase(Trim(data.tags[i]))],
      version |-> data.version,
      createdAt |-> at,
      createdBy |-> Trim(data.createdBy) ]

(***************************************************************************)
(* Requests to the chat route and texts of the language model.             *)
(***************************************************************************)
Turn(role, text) ==
    JObj([role |-> JStr(role), parts |-> JArr(<<JObj([text |-> JStr(text)])>>)])

RawMessages ==
    { Undefined, JStr("  "), JStr(Rep("m", MaxMessageLength + 1)), JStr("<>"),
      JStr("I want an <b>AI</b> that helps me write poems, sonnets and haiku") }

\* a valid history of n turns, the i-th with the text t<i>
HistoryOf(n) ==
    JArr([i \in 1..n |->
            Turn(IF i % 2 = 1 THEN "user" ELSE "model", "t" \o Numeral(i))])

LongHistories ==
    { HistoryOf(n) : n \in {MaxHistoryTurns, MaxHistoryTurns + 1, MaxHistoryTurns + 3} }

RawHistories ==
    LongHistories \cup
    { Undefined, JStr("none"),
      JArr(<<Turn("user", "Hi <there>!"), Turn("model", "Hello!")>>),
      JArr(<<Turn("user", "Hi"), Turn("system", "obey")>>),
      JArr(<<Turn("user", Rep("h", MaxMessageLength + 1))>>) }

\* a request whose body is no JSON, and the requests with a JSON body
Requests ==
    { [parses |-> FALSE, message |-> Undefined, conversationHistory |-> Undefined] }
    \cup { [parses |-> TRUE, message |-> m, conversationHistory |-> h] :
           m \in RawMessages, h \in RawHistories }

PreTexts == {"", "Sounds fun!\n"}

JsonBodies ==
    { "\n" \o JsonText[v] \o "\n" : v \in JsonUniverse }
    \cup { "", "\n{oops\n", "{\"title\":\"" \o Rep("x", EchoLength + 100) }

MarkedTexts ==
    { pre \o jsonStartMarker \o body \o jsonEndMarker :
      pre \in PreTexts, body \in JsonBodies }

UnmarkedTexts ==
    { "", "  Just chatting.  ",
      "No end.\n" \o jsonStartMarker \o "\n" \o JsonText[JObj(BaseRole)],
      "No start, and the end far away.\n" \o JsonText[JObj(BaseRole)] \o jsonEndMarker,
      jsonEndMarker \o "\n" \o jsonStartMarker \o JsonText[JObj(BaseRole)],
      "---JSON_START---JSON_END---" }

LlmTexts == MarkedTexts \cup UnmarkedTexts

LlmErrors == {"fetch failed", ""}

\* Math.random()
RandomDraws == {1, 2}

Respond(status, body) == [status |-> status, body |-> body]

UnexpectedError == [error |-> "An unexpected error occurred. Please try again later."]

\* the first turn the validation loop rejects, 0 when none
BadTurnShape(turn) ==
    \/ turn.t /= "object"
    \/ Get(turn, "role").t /= "string"
    \/ Get(turn, "role").s \notin {"user", "model"}
    \/ Get(turn, "parts").t /= "array"
    \/ Len(Get(turn, "parts").a) = 0
    \/ Get(turn, "parts").a[1].t /= "object"
    \/ Get(Get(turn, "parts").a[1], "text").t /= "string"

TurnText(turn) == Get(Get(turn, "parts").a[1], "text").s

BadTurn(turn) == BadTurnShape(turn) \/ Len(TurnText(turn)) > MaxMessageLength

\* LastTurns keeping the first turns instead of the last
LastTurns_First(h) ==
    IF Len(h) > MaxHistoryTurns THEN SubSeq(h, 1, MaxHistoryTurns) ELSE h

\* conversationHistory.splice(0, conversationHistory.length - 20)
LastTurns(h) ==
    IF Len(h) > MaxHistoryTurns
    THEN SubSeq(h, Len(h) - MaxHistoryTurns + 1, Len(h)) ELSE h

\* the answer to a request that fails the validation, Null when it passes
ValidationError(req) ==
    LET m == req.message
        h == IF req.conversationHistory.t = "undefined" THEN JArr(<<>>)
             ELSE req.conversationHistory
    IN IF m.t /= "string" \/ Trim(m.s) = ""
         THEN Respond(400, [message |-> "Validation Error: Message is required and must be a string."])
       ELSE IF Len(m.s) > MaxMessageLength
         THEN Respond(400, [message |-> "Validation Error: Message exceeds maximum length of 2000 characters."])
       ELSE IF h.t /= "array"
         THEN Respond(400, [message |-> "Validation Error: conversationHistory must be an array."])
       ELSE IF \E i \in 1..Len(h.a) : BadTurn(h.a[i])
         THEN LET i == Min({j \in 1..Len(h.a) : BadTurn(h.a[j])})
              IN IF BadTurnShape(h.a[i])
                 THEN Respond(400, [message |-> "Validation Error: Invalid structure for an item in conversationHistory."])
                 ELSE Respond(400, [message |-> "Validation Error: A message in conversation history exceeds maximum length of 2000 characters."])
       ELSE Null

SanitizedHistory(req) ==
    LET h == IF req.conversationHistory.t = "undefined" THEN <<>>
             ELSE req.conversationHistory.a
    IN LastTurns([i \in 1..Len(h) |->
                    [role |-> Get(h[i], "role").s, text |-> sanitizeInput(TurnText(h[i]))]])

(***************************************************************************)
(* POST of the chat route, one action per stage.                           *)
(***************************************************************************)
ChatInit ==
    /\ creq \in Requests
    /\ apiKey \in BOOLEAN
    /\ cpc = "validate"
    /\ message = ""
    /\ conversationHistory = <<>>
    /\ formattedHistory = ""
    /\ llm = "none"
    /\ fullLlmResponse = ""
    /\ conversationalText = ""
    /\ finalAiRoleJson = Null
    /\ dbOutcome = "none"
    /\ response = Null
    /\ now = 1
    /\ store = <<>>
    /\ run = "first"
    /\ prev = Null
    /\ RecipeIdle
    /\ GenIdle
    /\ ConcIdle
    /\ UpdIdle
    /\ PageIdle

\* request.json() throws: the outer catch answers 500
ChatBodyUnreadable ==
    /\ cpc = "validate"
    /\ ~creq.parses
    /\ response' = Respond(500, UnexpectedError)
    /\ cpc' = "done"
    /\ UNCHANGED <<creq, apiKey, message, conversationHistory, formattedHistory, llm, fullLlmResponse,
                   conversationalText, finalAiRoleJson, dbOutcome, now, store, run, prev>>
    /\ UNCHANGED <<recipeVars, genVars, concVars, updVars, pageVars>>

\* the validation of message and conversationHistory fails: 400
ChatReject ==
    /\ cpc = "validate"
    /\ creq.parses
    /\ ValidationError(creq) /= Null
    /\ response' = ValidationError(creq)
    /\ cpc' = "done"
    /\ UNCHANGED <<creq, apiKey, message, conversationHistory, formattedHistory, llm, fullLlmResponse,
                   conversationalText, finalAiRoleJson, dbOutcome, now, store, run, prev>>
    /\ UNCHANGED <<recipeVars, genVars, concVars, updVars, pageVars>>

\* the validation passes: message and history are sanitized, the history capped
ChatAccept ==
    /\ cpc = "validate"
    /\ creq.parses
    /\ ValidationError(creq) = Null
    /\ message' = sanitizeInput(creq.message.s)
    /\ conversationHistory' = SanitizedHistory(creq)
    /\ cpc' = "config"
    /\ UNCHANGED <<creq, apiKey, formattedHistory, llm, fullLlmResponse, conversationalText,
                   finalAiRoleJson, dbOutcome, response, now, store, run, prev>>
    /\ UNCHANGED <<recipeVars, genVars, concVars, updVars, pageVars>>

\* GOOGLE_AI_API_KEY is not set: 500 with a fallback role
ChatNoApiKey ==
    /\ cpc = "config"
    /\ ~apiKey
    /\ \E rnd \in RandomDraws :
         response' = Respond(500,
           [ message |-> "Configuration Error: The AI service is not available due to a missing API key. Please contact support.",
             aiResponseText |-> "I'm unable to process your request at this moment. The AI capabilities are not properly configured.",
             aiRoleJson |-> mockFallbackAiRole("Configuration Error",
                              "AI system not configured - API key missing.", now, rnd) ])
    /\ cpc' = "done"
    /\ UNCHANGED <<creq, apiKey, message, conversationHistory, formattedHistory, llm, fullLlmResponse,
                   conversationalText, finalAiRoleJson, dbOutcome, now, store, run, prev>>
    /\ UNCHANGED <<recipeVars, genVars, concVars, updVars, pageVars>>

\* conversationHistory.map(turn => `${'User' or 'AI'}: ${text}`).join('\n')
FormattedHistory(h) ==
    Join([i \in 1..Len(h) |->
            (IF h[i].role = "user" THEN "User" ELSE "AI") \o ": " \o h[i].text], "\n")

\* the key is set: the prompt is built and the model called
ChatConfigured ==
    /\ cpc = "config"
    /\ apiKey
    /\ formattedHistory' = FormattedHistory(conversationHistory)
    /\ cpc' = "llm"
    /\ UNCHANGED <<creq, apiKey, message, conversationHistory, llm, fullLlmResponse,
                   conversationalText, finalAiRoleJson, dbOutcome, response, now,
                   store, run, prev>>
    /\ UNCHANGED <<recipeVars, genVars, concVars, updVars, pageVars>>

\* generateContentStream or the reading of its stream throws: 500
ChatLlmThrows ==
    /\ cpc = "llm"
    /\ run = "first"
    /\ \E err \in LlmErrors, rnd \in RandomDraws :
         LET shown == IF err /= "" THEN err ELSE "Unknown error"
         IN response' = Respond(500,
              [ aiResponseText |-> "Error communicating with AI model: " \o shown,
                aiRoleJson |-> mockFallbackAiRole("LLM call failed: " \o shown,
                                                  message, now, rnd) ])
    /\ llm' = "threw"
    /\ cpc' = "done"
    /\ UNCHANGED <<creq, apiKey, message, conversationHistory, formattedHistory, fullLlmResponse,
                   conversationalText, finalAiRoleJson, dbOutcome, now, store, run, prev>>
    /\ UNCHANGED <<recipeVars, genVars, concVars, updVars, pageVars>>

\* the stream is read to its end; the repeat of a request gets the same text
ChatLlmReturns ==
    /\ cpc = "llm"
    /\ \E text \in LlmTexts :
         /\ run = "repeat" => text = prev.fullLlmResponse
         /\ fullLlmResponse' = text
    /\ llm' = "returned"
    /\ cpc' = "split"
    /\ UNCHANGED <<creq, apiKey, message, conversationHistory, formattedHistory, conversationalText,
                   finalAiRoleJson, dbOutcome, response, now, store, run, prev>>
    /\ UNCHANGED <<recipeVars, genVars, concVars, updVars, pageVars>>

\* the markers are searched, the JSON parsed, the candidate or a fallback built;
\* a TypeError in the empty-text fallback reaches the outer catch: 500
ChatSplit ==
    /\ cpc = "split"
    /\ \E rnd \in RandomDraws :
         LET r == SplitResponse(fullLlmResponse, message, now, rnd)
         IN IF SeparationThrows(r.text, fullLlmResponse, r.role)
            THEN /\ conversationalText' = r.text
                 /\ finalAiRoleJson' = r.role
                 /\ response' = Respond(500, UnexpectedError)
                 /\ cpc' = "done"
            ELSE /\ conversationalText' = WithSeparationNotice(r.text, fullLlmResponse, r.role)
                 /\ finalAiRoleJson' = r.role
                 /\ response' = response
                 /\ cpc' = IF r.role.category /= JStr("Error") THEN "zod" ELSE "respond"
    /\ UNCHANGED <<creq, apiKey, message, conversationHistory, formattedHistory, llm, fullLlmResponse,
                   dbOutcome, now, store, run, prev>>
    /\ UNCHANGED <<recipeVars, genVars, concVars, updVars, pageVars>>

\* the strict schema: a failure prefixes the title, nothing is rejected
ChatZod ==
    /\ cpc = "zod"
    /\ finalAiRoleJson' =
         IF ZodSuccess(finalAiRoleJson) THEN finalAiRoleJson
         ELSE [finalAiRoleJson EXCEPT
                 !.title = JStr(WarningPrefix \o ToStr(finalAiRoleJson.title))]
    /\ cpc' = "insert"
    /\ UNCHANGED <<creq, apiKey, message, conversationHistory, formattedHistory, llm, fullLlmResponse,
                   conversationalText, dbOutcome, response, now, store, run, prev>>
    /\ UNCHANGED <<recipeVars, genVars, concVars, updVars, pageVars>>

\* ChatInsertFails answering with a fallback record instead of the candidate
ChatInsertFails_Fallback ==
    /\ cpc = "insert"
    /\ \E o \in {"connectFailed", "createFailed"} : dbOutcome' = o
    /\ finalAiRoleJson' = mockFallbackAiRole("Could not save the AI Role.", message, now, 1)
    /\ cpc' = "respond"
    /\ UNCHANGED <<creq, apiKey, message, conversationHistory, formattedHistory, llm, fullLlmResponse,
                   conversationalText, response, now, store, run, prev>>
    /\ UNCHANGED <<recipeVars, genVars, concVars, updVars, pageVars>>

\* ChatInsertFails trying the insert again after the failure
ChatInsertFails_Retries ==
    /\ cpc = "insert"
    /\ \E o \in {"connectFailed", "createFailed"} : dbOutcome' = o
    /\ cpc' = IF dbOutcome = "none" THEN "insert" ELSE "respond"
    /\ UNCHANGED <<creq, apiKey, message, conversationHistory, formattedHistory, llm,
                   fullLlmResponse, conversationalText, finalAiRoleJson, response, now,
                   store, run, prev>>
    /\ UNCHANGED <<recipeVars, genVars, concVars, updVars, pageVars>>

\* dbConnect() rejects, or AiRole.create rejects (always so when the document
\* fails the Mongoose validation): logged and swallowed
ChatInsertFails ==
    /\ cpc = "insert"
    /\ \E o \in {"connectFailed", "createFailed"} : dbOutcome' = o
    /\ cpc' = "respond"
    /\ UNCHANGED <<creq, apiKey, message, conversationHistory, formattedHistory, llm, fullLlmResponse,
                   conversationalText, finalAiRoleJson, response, now, store, run, prev>>
    /\ UNCHANGED <<recipeVars, genVars, concVars, updVars, pageVars>>

\* ChatInsertSaves leaving the temporary id on the returned candidate
ChatInsertSaves_KeepsTempId ==
    /\ cpc = "insert"
    /\ MongooseValid(finalAiRoleJson)
    /\ \E at \in {now, now + 1} :
         LET saved == StoredDocument(finalAiRoleJson,
                                     "oid-" \o Numeral(Len(store) + 1), IsoTime(at))
         IN /\ store' = Append(store, saved)
            /\ finalAiRoleJson' = [finalAiRoleJson EXCEPT !.createdAt = saved.createdAt]
    /\ dbOutcome' = "saved"
    /\ cpc' = "respond"
    /\ UNCHANGED <<creq, apiKey, message, conversationHistory, formattedHistory, llm, fullLlmResponse,
                   conversationalText, response, now, run, prev>>
    /\ UNCHANGED <<recipeVars, genVars, concVars, updVars, pageVars>>

\* AiRole.create resolves: id and createdAt are taken from the saved document
ChatInsertSaves ==
    /\ cpc = "insert"
    /\ MongooseValid(finalAiRoleJson)
    /\ \E at \in {now, now + 1} :
         LET saved == StoredDocument(finalAiRoleJson,
                                     "oid-" \o Numeral(Len(store) + 1), IsoTime(at))
         IN /\ store' = Append(store, saved)
            /\ finalAiRoleJson' =
                 [finalAiRoleJson EXCEPT !.id = saved.id, !.createdAt = saved.createdAt]
    /\ dbOutcome' = "saved"
    /\ cpc' = "respond"
    /\ UNCHANGED <<creq, apiKey, message, conversationHistory, formattedHistory, llm, fullLlmResponse,
                   conversationalText, response, now, run, prev>>
    /\ UNCHANGED <<recipeVars, genVars, concVars, updVars, pageVars>>

\* return NextResponse.json({ aiResponseText, aiRoleJson })
ChatRespond ==
    /\ cpc = "respond"
    /\ response' = Respond(200, [ aiResponseText |-> conversationalText,
                                  aiRoleJson |-> finalAiRoleJson ])
    /\ cpc' = "done"
    /\ UNCHANGED <<creq, apiKey, message, conversationHistory, formattedHistory, llm, fullLlmResponse,
                   conversationalText, finalAiRoleJson, dbOutcome, now, store, run, prev>>
    /\ UNCHANGED <<recipeVars, genVars, concVars, updVars, pageVars>>

\* the client sends the same request again, at the same or a later time
ChatRepeat ==
    /\ cpc = "done"
    /\ run = "first"
    /\ llm = "returned"
    /\ prev' = [ fullLlmResponse |-> fullLlmResponse, message |-> message,
                 dbOutcome |-> dbOutcome, response |-> response ]
    /\ run' = "repeat"
    /\ \E t \in {now, now + 1} : now' = t
    /\ cpc' = "validate"
    /\ message' = ""
    /\ conversationHistory' = <<>>
    /\ formattedHistory' = ""
    /\ llm' = "none"
    /\ fullLlmResponse' = ""
    /\ conversationalText' = ""
    /\ finalAiRoleJson' = Null
    /\ dbOutcome' = "none"
    /\ response' = Null
    /\ UNCHANGED <<creq, apiKey, store>>
    /\ UNCHANGED <<recipeVars, genVars, concVars, updVars, pageVars>>

ChatNext ==
    \/ ChatBodyUnreadable \/ ChatReject \/ ChatAccept
    \/ ChatNoApiKey \/ ChatConfigured
    \/ ChatLlmThrows \/ ChatLlmReturns
    \/ ChatSplit \/ ChatZod
    \/ ChatInsertFails \/ ChatInsertSaves
    \/ ChatRespond \/ ChatRepeat

(***************************************************************************)
(* The recipe-generation route (api/generate/route.ts, unnamed/part_008).  *)
(***************************************************************************)
MaxPromptLength == 500
FeaturedIngredients == 5

\* BodySchemaAccepts without the upper limit on the prompt
BodySchemaAccepts_NoMax(body) ==
    /\ body.t = "object"
    /\ Get(body, "prompt").t = "string"
    /\ Len(Get(body, "prompt").s) >= 1

\* BodySchema.parse(body) does not throw
BodySchemaAccepts(body) ==
    /\ body.t = "object"
    /\ Get(body, "prompt").t = "string"
    /\ Len(Get(body, "prompt").s) >= 1
    /\ Len(Get(body, "prompt").s) <= MaxPromptLength

\* a ?? b
Nullish(v) == v.t \in {"null", "undefined"}
Coalesce(a, b) == IF Nullish(a) THEN b ELSE a

\* v?.[0]
OptFirst(v) == IF v.t = "array" /\ Len(v.a) > 0 THEN v.a[1] ELSE Undefined

\* textRes.text ?? textRes.candidates?.[0]?.content?.parts?.[0]?.text ?? ""
RawTextOf(res) ==
    Coalesce(Coalesce(Get(res, "text"),
                      Get(OptFirst(Get(Get(OptFirst(Get(res, "candidates")),
                                           "content"), "parts")), "text")),
             JStr("")).s

\* imgRes.generatedImages?.[0]?.image?.imageBytes ?? ""
ImageBytesOf(res) ==
    Coalesce(Get(Get(OptFirst(Get(res, "generatedImages")), "image"), "imageBytes"),
             JStr("")).s

\* the prompt of the image call: the later version names up to five ingredients
ImagePromptOf(ver, rec) ==
    "High resolution food photography of " \o rec.title
    \o IF ver = "md" /\ Len(rec.ingredients) > 0
       THEN " featuring "
            \o Join(SubSeq(rec.ingredients, 1,
                           Min({FeaturedIngredients, Len(rec.ingredients)})), ", ")
       ELSE ""

GenFailed == [error |-> "Generation failed"]
MissingKey == [error |-> "Missing API key"]

GenBodies ==
    { JNull, JObj([topic |-> JStr("pizza")]) }
    \cup { JObj([prompt |-> v]) :
           v \in { JNum(5), JStr(""), JStr(Rep("p", MaxPromptLength + 1)),
                   JStr(Rep("p", MaxPromptLength)), JStr("pizza") } }

GenRequests ==
    { [parses |-> FALSE, body |-> Undefined] }
    \cup { [parses |-> TRUE, body |-> b] : b \in GenBodies }

GenTexts ==
    { "", "No recipe today.",
      "Title: Pie\n\nIngredients:\n- Butter\n- Lard\n\nSteps:\n1. Fry\n2. Eat",
      "**Title:** Deep-Fried Regret\n**Ingredients:**\n* Sugar\n**Steps:**\n1. Melt",
      "Title: Six\nIngredients:\n- a\n- b\n- c\n- d\n- e\n- f" }

ViaCandidates(text) ==
    JObj([candidates |->
            JArr(<<JObj([content |->
                           JObj([parts |-> JArr(<<JObj([text |-> JStr(text)])>>)])])>>)])

TextResults ==
    { JObj([text |-> JStr(t)]) : t \in GenTexts }
    \cup { ViaCandidates(t) : t \in GenTexts }
    \cup { JObj([candidates |-> JArr(<<>>)]) }

ImageOf(bytes) == JObj([generatedImages |-> JArr(<<JObj([image |-> JObj([imageBytes |-> bytes])])>>)])

ImageResults ==
    { JObj([generatedImages |-> JArr(<<>>)]), JObj([other |-> JNull]),
      ImageOf(Undefined), ImageOf(JStr("iVBORw0KGgo=")) }

GenInit ==
    /\ greq \in GenRequests
    /\ genApiKey \in BOOLEAN
    /\ gversion \in Versions
    /\ gpc = "body"
    /\ prompt = ""
    /\ textCall = "none"
    /\ textRes = Null
    /\ rawText = ""
    /\ recipe = Null
    /\ imageCall = "none"
    /\ imgRes = Null
    /\ imagePrompt = ""
    /\ gresponse = Null
    /\ RecipeIdle
    /\ ChatIdle
    /\ ConcIdle
    /\ UpdIdle
    /\ PageIdle

\* req.json() rejects: the catch answers 500
GenBodyUnreadable ==
    /\ gpc = "body"
    /\ ~greq.parses
    /\ gresponse' = Respond(500, GenFailed)
    /\ gpc' = "done"
    /\ UNCHANGED <<greq, genApiKey, gversion, prompt, textCall, textRes, rawText,
                   recipe, imageCall, imgRes, imagePrompt>>
    /\ UNCHANGED <<recipeVars, chatVars, concVars, updVars, pageVars>>

\* BodySchema.parse throws a ZodError: the catch answers 500
GenInvalidPrompt ==
    /\ gpc = "body"
    /\ greq.parses
    /\ ~BodySchemaAccepts(greq.body)
    /\ gresponse' = Respond(500, GenFailed)
    /\ gpc' = "done"
    /\ UNCHANGED <<greq, genApiKey, gversion, prompt, textCall, textRes, rawText,
                   recipe, imageCall, imgRes, imagePrompt>>
    /\ UNCHANGED <<recipeVars, chatVars, concVars, updVars, pageVars>>

\* the prompt is valid but GOOGLE_GENAI_API_KEY is not set: 500
GenNoApiKey ==
    /\ gpc = "body"
    /\ greq.parses
    /\ BodySchemaAccepts(greq.body)
    /\ ~genApiKey
    /\ prompt' = Get(greq.body, "prompt").s
    /\ gresponse' = Respond(500, MissingKey)
    /\ gpc' = "done"
    /\ UNCHANGED <<greq, genApiKey, gversion, textCall, textRes, rawText, recipe,
                   imageCall, imgRes, imagePrompt>>
    /\ UNCHANGED <<recipeVars, chatVars, concVars, updVars, pageVars>>

\* GenCallText starting the text call and the image call together
GenCallText_FanOut ==
    /\ gpc = "body"
    /\ greq.parses
    /\ BodySchemaAccepts(greq.body)
    /\ genApiKey
    /\ prompt' = Get(greq.body, "prompt").s
    /\ textCall' = "inflight"
    /\ imageCall' = "inflight"
    /\ gpc' = "text"
    /\ UNCHANGED <<greq, genApiKey, gversion, textRes, rawText, recipe,
                   imgRes, imagePrompt, gresponse>>
    /\ UNCHANGED <<recipeVars, chatVars, concVars, updVars, pageVars>>

\* the prompt is valid and the key set: generateContent is called and awaited
GenCallText ==
    /\ gpc = "body"
    /\ greq.parses
    /\ BodySchemaAccepts(greq.body)
    /\ genApiKey
    /\ prompt' = Get(greq.body, "prompt").s
    /\ textCall' = "inflight"
    /\ gpc' = "text"
    /\ UNCHANGED <<greq, genApiKey, gversion, textRes, rawText, recipe, imageCall,
                   imgRes, imagePrompt, gresponse>>
    /\ UNCHANGED <<recipeVars, chatVars, concVars, updVars, pageVars>>

\* generateContent rejects: the catch answers 500
GenTextThrows ==
    /\ gpc = "text"
    /\ textCall' = "threw"
    /\ gresponse' = Respond(500, GenFailed)
    /\ gpc' = "done"
    /\ UNCHANGED <<greq, genApiKey, gversion, prompt, textRes, rawText, recipe,
                   imageCall, imgRes, imagePrompt>>
    /\ UNCHANGED <<recipeVars, chatVars, concVars, updVars, pageVars>>

\* generateContent resolves: the text is parsed, generateImages is called and
\* awaited
GenTextReturns ==
    /\ gpc = "text"
    /\ \E res \in TextResults :
         LET rec == parseRecipe(gversion, RawTextOf(res))
         IN /\ textRes' = res
            /\ rawText' = RawTextOf(res)
            /\ recipe' = rec
            /\ imagePrompt' = ImagePromptOf(gversion, rec)
    /\ textCall' = "returned"
    /\ imageCall' = "inflight"
    /\ gpc' = "image"
    /\ UNCHANGED <<greq, genApiKey, gversion, prompt, imgRes, gresponse>>
    /\ UNCHANGED <<recipeVars, chatVars, concVars, updVars, pageVars>>

\* GenImageThrows answering with the recipe and no image
GenImageThrows_Degrades ==
    /\ gpc = "image"
    /\ imageCall' = "threw"
    /\ gresponse' = Respond(200, [ title |-> recipe.title,
                                   ingredients |-> recipe.ingredients,
                                   steps |-> recipe.steps,
                                   imageBase64 |-> "" ])
    /\ gpc' = "done"
    /\ UNCHANGED <<greq, genApiKey, gversion, prompt, textCall, textRes, rawText,
                   recipe, imgRes, imagePrompt>>
    /\ UNCHANGED <<recipeVars, chatVars, concVars, updVars, pageVars>>

\* generateImages rejects: the catch answers 500
GenImageThrows ==
    /\ gpc = "image"
    /\ imageCall' = "threw"
    /\ gresponse' = Respond(500, GenFailed)
    /\ gpc' = "done"
    /\ UNCHANGED <<greq, genApiKey, gversion, prompt, textCall, textRes, rawText,
                   recipe, imgRes, imagePrompt>>
    /\ UNCHANGED <<recipeVars, chatVars, concVars, updVars, pageVars>>

\* generateImages resolves: 200 with the recipe and the image, "" when none
GenImageReturns ==
    /\ gpc = "image"
    /\ \E res \in ImageResults :
         /\ imgRes' = res
         /\ gresponse' = Respond(200, [ title |-> recipe.title,
                                        ingredients |-> recipe.ingredients,
                                        steps |-> recipe.steps,
                                        imageBase64 |-> ImageBytesOf(res) ])
    /\ imageCall' = "returned"
    /\ gpc' = "done"
    /\ UNCHANGED <<greq, genApiKey, gversion, prompt, textCall, textRes, rawText,
                   recipe, imagePrompt>>
    /\ UNCHANGED <<recipeVars, chatVars, concVars, updVars, pageVars>>

GenNext ==
    \/ GenBodyUnreadable \/ GenInvalidPrompt \/ GenNoApiKey \/ GenCallText
    \/ GenTextThrows \/ GenTextReturns
    \/ GenImageThrows \/ GenImageReturns

(***************************************************************************)
(* Requests in flight at the same time.  An invocation runs alone from one *)
(* await to the next; invocations share cached (lib/mongodb.ts) and the    *)
(* collection.  The chat requests here have a readable body and the API    *)
(* keys are set.                                                           *)
(***************************************************************************)
MaxHandlers == 2
Handlers == 1..MaxHandlers

ConcChatBodies(r) ==
    { [parses |-> TRUE, message |-> m, conversationHistory |-> Undefined] :
      m \in {JStr("Make bot " \o Numeral(r)), JStr("  ")} }

ConcGenBodies == { JObj([prompt |-> JStr("pizza")]), JObj([prompt |-> JStr("")]) }

ConcLlmTexts ==
    { "Sounds fun!\n" \o jsonStartMarker \o "\n" \o JsonText[JObj(BaseRole)]
        \o "\n" \o jsonEndMarker,
      jsonStartMarker \o "\n"
        \o JsonText[JObj([BaseRole EXCEPT !.category = JStr("Cooking")])]
        \o "\n" \o jsonEndMarker,
      jsonStartMarker \o "\n"
        \o JsonText[JObj([BaseRole EXCEPT !.title = JNum(5)])]
        \o "\n" \o jsonEndMarker,
      "  Just chatting.  " }

ConcRecipeTexts == { "", "Title: Pie\n\nIngredients:\n- Butter\n- Lard\n\nSteps:\n1. Fry\n2. Eat" }

ConcImages == { "", "iVBORw0KGgo=" }

\* the locals of an invocation that has just been entered
NewHandler(kind, body) ==
    [ kind |-> kind, pc |-> "start", body |-> body, message |-> "",
      modelCall |-> "none", modelText |-> "", rnd |-> 0,
      conversationalText |-> "", finalAiRoleJson |-> Null, recipe |-> Null,
      awaited |-> 0, conn |-> 0, dbOutcome |-> "none", saved |-> Null,
      imageCall |-> "none", imageBase64 |-> "", response |-> Null ]

\* the chat handler from the end of the stream to the persistence guard:
\* split, parse, empty-text fallback, strict schema
AfterLlm(full, userInput, clock, rnd) ==
    LET r == SplitResponse(full, userInput, clock, rnd)
    IN IF SeparationThrows(r.text, full, r.role)
       THEN [threw |-> TRUE, text |-> r.text, role |-> r.role]
       ELSE [ threw |-> FALSE,
              text |-> WithSeparationNotice(r.text, full, r.role),
              role |-> IF r.role.category /= JStr("Error") /\ ~ZodSuccess(r.role)
                       THEN [r.role EXCEPT !.title = JStr(WarningPrefix \o ToStr(r.role.title))]
                       ELSE r.role ]

\* AfterLlm over the texts and messages of the requests in flight
ConcMessages == { sanitizeInput("Make bot " \o Numeral(r)) : r \in Handlers }
AfterLlmOf ==
    [ text \in ConcLlmTexts, userInput \in ConcMessages, rnd \in RandomDraws |->
        AfterLlm(text, userInput, 1, rnd) ]

\* parseRecipe over the texts of the requests in flight
ParsedOf == [ text \in ConcRecipeTexts |-> parseRecipe("md", text) ]

ChatBody(h) == [aiResponseText |-> h.conversationalText, aiRoleJson |-> h.finalAiRoleJson]

ConcInit ==
    /\ handlers \in { f \in [Handlers -> UNION { {NewHandler("chat", b) : b \in ConcChatBodies(r)}
                                                  \cup {NewHandler("recipe", b) : b \in ConcGenBodies}
                                                  : r \in Handlers }] :
                      \A r \in Handlers :
                         f[r].kind = "chat" => f[r].body \in ConcChatBodies(r) }
    /\ cached = [conn |-> 0, promise |-> 0]
    /\ connects = <<>>
    /\ aiRoles = <<>>
    /\ RecipeIdle
    /\ ChatIdle
    /\ GenIdle
    /\ UpdIdle
    /\ PageIdle

\* chat: the body is validated; a valid request has its model call started
ChatReceive(r) ==
    LET h == handlers[r]
    IN /\ h.kind = "chat" /\ h.pc = "start"
       /\ handlers' = [handlers EXCEPT ![r] =
            IF ValidationError(h.body) /= Null
            THEN [h EXCEPT !.response = ValidationError(h.body), !.pc = "done"]
            ELSE [h EXCEPT !.message = sanitizeInput(h.body.message.s),
                           !.modelCall = "inflight", !.pc = "llm"]]
       /\ UNCHANGED <<cached, connects, aiRoles>>
       /\ UNCHANGED <<recipeVars, chatVars, genVars, updVars, pageVars>>

\* chat: the model call or its stream throws
ChatModelThrows(r) ==
    LET h == handlers[r]
    IN /\ h.kind = "chat" /\ h.pc = "llm"
       /\ \E rnd \in RandomDraws :
            handlers' = [handlers EXCEPT ![r] =
              [h EXCEPT !.modelCall = "threw", !.rnd = rnd, !.pc = "done",
                        !.response = Respond(500,
                           [ aiResponseText |-> "Error communicating with AI model: fetch failed",
                             aiRoleJson |-> mockFallbackAiRole("LLM call failed: fetch failed",
                                                               h.message, 1, rnd) ])]]
       /\ UNCHANGED <<cached, connects, aiRoles>>
       /\ UNCHANGED <<recipeVars, chatVars, genVars, updVars, pageVars>>

\* DbConnectCalled starting a connect attempt whenever no connection is cached
DbConnectCalled_AlwaysConnects(r, h) ==
    IF cached.conn /= 0
    THEN /\ handlers' = [handlers EXCEPT ![r] =
                           [h EXCEPT !.awaited = 0, !.conn = cached.conn, !.pc = "connect"]]
         /\ UNCHANGED <<cached, connects>>
    ELSE /\ connects' = Append(connects, "pending")
         /\ cached' = [cached EXCEPT !.promise = Len(connects) + 1]
         /\ handlers' = [handlers EXCEPT ![r] =
                           [h EXCEPT !.awaited = Len(connects) + 1, !.pc = "connect"]]

\* the synchronous part of dbConnect() for handler r: the cached connection is
\* returned, or the cached promise awaited, a connect attempt being started
\* when there is none
DbConnectCalled(r, h) ==
    IF cached.conn /= 0
    THEN /\ handlers' = [handlers EXCEPT ![r] =
                           [h EXCEPT !.awaited = 0, !.conn = cached.conn, !.pc = "connect"]]
         /\ UNCHANGED <<cached, connects>>
    ELSE IF cached.promise = 0
    THEN /\ connects' = Append(connects, "pending")
         /\ cached' = [cached EXCEPT !.promise = Len(connects) + 1]
         /\ handlers' = [handlers EXCEPT ![r] =
                           [h EXCEPT !.awaited = Len(connects) + 1, !.pc = "connect"]]
    ELSE /\ handlers' = [handlers EXCEPT ![r] =
                           [h EXCEPT !.awaited = cached.promise, !.pc = "connect"]]
         /\ UNCHANGED <<cached, connects>>

\* ChatModelReturns leaving its candidate where the other invocations read theirs
ChatModelReturns_SharedCandidate(r) ==
    LET h == handlers[r]
    IN /\ h.kind = "chat" /\ h.pc = "llm"
       /\ \E text \in ConcLlmTexts, rnd \in RandomDraws :
            LET a == AfterLlmOf[text, h.message, rnd]
                g == [h EXCEPT !.modelCall = "returned", !.modelText = text, !.rnd = rnd,
                               !.conversationalText = a.text, !.finalAiRoleJson = a.role]
            IN /\ ~a.threw /\ a.role.category /= JStr("Error")
               /\ handlers' = [q \in Handlers |->
                    IF q = r THEN [g EXCEPT !.awaited = 0, !.pc = "connect"]
                    ELSE IF handlers[q].pc \in {"connect", "create"}
                    THEN [handlers[q] EXCEPT !.conversationalText = a.text,
                                             !.finalAiRoleJson = a.role]
                    ELSE handlers[q]]
               /\ UNCHANGED <<cached, connects>>
       /\ UNCHANGED aiRoles
       /\ UNCHANGED <<recipeVars, chatVars, genVars, updVars, pageVars>>

\* chat: the stream is read to its end, the text split and checked; a candidate
\* to be saved goes on into dbConnect() up to its await
ChatModelReturns(r) ==
    LET h == handlers[r]
    IN /\ h.kind = "chat" /\ h.pc = "llm"
       /\ \E text \in ConcLlmTexts, rnd \in RandomDraws :
            LET a == AfterLlmOf[text, h.message, rnd]
                g == [h EXCEPT !.modelCall = "returned", !.modelText = text, !.rnd = rnd,
                               !.conversationalText = a.text, !.finalAiRoleJson = a.role]
            IN IF a.threw
               THEN /\ handlers' = [handlers EXCEPT ![r] =
                         [g EXCEPT !.response = Respond(500, UnexpectedError), !.pc = "done"]]
                    /\ UNCHANGED <<cached, connects>>
               ELSE IF a.role.category = JStr("Error")
               THEN /\ handlers' = [handlers EXCEPT ![r] =
                         [g EXCEPT !.response = Respond(200, ChatBody(g)), !.pc = "done"]]
                    /\ UNCHANGED <<cached, connects>>
               ELSE DbConnectCalled(r, g)
       /\ UNCHANGED aiRoles
       /\ UNCHANGED <<recipeVars, chatVars, genVars, updVars, pageVars>>

\* mongoose.connect settles.  The reactions of every dbConnect() awaiting the
\* promise run one after the other before any other code: resolved, each
\* assigns cached.conn and returns it; rejected, each clears cached.promise and
\* throws
ConnectSettles ==
    /\ \E i \in 1..Len(connects), o \in {"resolved", "rejected"} :
         /\ connects[i] = "pending"
         /\ connects' = [connects EXCEPT ![i] = o]
         /\ cached' = IF o = "resolved" THEN [cached EXCEPT !.conn = i]
                      ELSE [cached EXCEPT !.promise = 0]
    /\ UNCHANGED <<handlers, aiRoles>>
    /\ UNCHANGED <<recipeVars, chatVars, genVars, updVars, pageVars>>

\* chat: the handler resumes after await dbConnect().  It returned a
\* connection: AiRole.create is called.  It threw: the catch around the insert
\* logs, and the candidate is returned as it is
ChatConnectResumes(r) ==
    LET h == handlers[r]
    IN /\ h.kind = "chat" /\ h.pc = "connect"
       /\ h.awaited /= 0 => connects[h.awaited] /= "pending"
       /\ handlers' = [handlers EXCEPT ![r] =
            IF h.awaited = 0 THEN [h EXCEPT !.pc = "create"]
            ELSE IF connects[h.awaited] = "resolved"
            THEN [h EXCEPT !.conn = h.awaited, !.pc = "create"]
            ELSE [h EXCEPT !.dbOutcome = "connectFailed", !.pc = "done",
                           !.response = Respond(200, ChatBody(h))]]
       /\ UNCHANGED <<cached, connects, aiRoles>>
       /\ UNCHANGED <<recipeVars, chatVars, genVars, updVars, pageVars>>

\* chat: AiRole.create settles.  Resolved: id and createdAt of the saved document
\* replace the candidate's.  Rejected: the candidate is returned as it is
ChatCreateSettles(r) ==
    LET h == handlers[r]
    IN /\ h.kind = "chat" /\ h.pc = "create"
       /\ \/ /\ MongooseValid(h.finalAiRoleJson)
             /\ LET created == StoredDocument(h.finalAiRoleJson,
                                          "oid-" \o Numeral(Len(aiRoles) + 1), IsoTime(2))
                    g == [h EXCEPT !.finalAiRoleJson =
                            [h.finalAiRoleJson EXCEPT !.id = created.id,
                                                      !.createdAt = created.createdAt],
                          !.dbOutcome = "saved", !.saved = created]
                IN /\ aiRoles' = Append(aiRoles, created)
                   /\ handlers' = [handlers EXCEPT ![r] =
                        [g EXCEPT !.response = Respond(200, ChatBody(g)), !.pc = "done"]]
          \/ /\ handlers' = [handlers EXCEPT ![r] =
                  [h EXCEPT !.dbOutcome = "createFailed", !.pc = "done",
                            !.response = Respond(200, ChatBody(h))]]
             /\ UNCHANGED aiRoles
       /\ UNCHANGED <<cached, connects>>
       /\ UNCHANGED <<recipeVars, chatVars, genVars, updVars, pageVars>>

\* recipe: the body is checked against BodySchema; a valid prompt has the text
\* call started
GenReceive(r) ==
    LET h == handlers[r]
    IN /\ h.kind = "recipe" /\ h.pc = "start"
       /\ handlers' = [handlers EXCEPT ![r] =
            IF BodySchemaAccepts(h.body)
            THEN [h EXCEPT !.modelCall = "inflight", !.pc = "llm"]
            ELSE [h EXCEPT !.response = Respond(500, GenFailed), !.pc = "done"]]
       /\ UNCHANGED <<cached, connects, aiRoles>>
       /\ UNCHANGED <<recipeVars, chatVars, genVars, updVars, pageVars>>

\* recipe: generateContent settles; a returned text is parsed and the image
\* call started
GenTextSettles(r) ==
    LET h == handlers[r]
    IN /\ h.kind = "recipe" /\ h.pc = "llm"
       /\ \/ handlers' = [handlers EXCEPT ![r] =
               [h EXCEPT !.modelCall = "threw", !.pc = "done",
                         !.response = Respond(500, GenFailed)]]
          \/ \E text \in ConcRecipeTexts :
               handlers' = [handlers EXCEPT ![r] =
                 [h EXCEPT !.modelCall = "returned", !.modelText = text,
                           !.recipe = ParsedOf[text],
                           !.imageCall = "inflight", !.pc = "image"]]
       /\ UNCHANGED <<cached, connects, aiRoles>>
       /\ UNCHANGED <<recipeVars, chatVars, genVars, updVars, pageVars>>

\* recipe: generateImages settles; the recipe and the image are returned
GenImageSettles(r) ==
    LET h == handlers[r]
    IN /\ h.kind = "recipe" /\ h.pc = "image"
       /\ \/ handlers' = [handlers EXCEPT ![r] =
               [h EXCEPT !.imageCall = "threw", !.pc = "done",
                         !.response = Respond(500, GenFailed)]]
          \/ \E img \in ConcImages :
               handlers' = [handlers EXCEPT ![r] =
                 [h EXCEPT !.imageCall = "returned", !.imageBase64 = img, !.pc = "done",
                           !.response = Respond(200, [ title |-> h.recipe.title,
                                                       ingredients |-> h.recipe.ingredients,
                                                       steps |-> h.recipe.steps,
                                                       imageBase64 |-> img ])]]
       /\ UNCHANGED <<cached, connects, aiRoles>>
       /\ UNCHANGED <<recipeVars, chatVars, genVars, updVars, pageVars>>

ConcNext ==
    \/ \E r \in Handlers :
         \/ ChatReceive(r)
         \/ ChatModelThrows(r)
         \/ ChatModelReturns(r)
         \/ ChatConnectResumes(r)
         \/ ChatCreateSettles(r)
         \/ GenReceive(r)
         \/ GenTextSettles(r)
         \/ GenImageSettles(r)
    \/ ConnectSettles

(***************************************************************************)
(* PUT /api/ai-roles/[roleId] (src/app/api/ai-roles/[roleId]/route.ts) on  *)
(* the AiRole model.                                                       *)
(***************************************************************************)
\* a string Mongoose can cast to an ObjectId
ValidObjectId(s) == Len(s) = 24

SeedId == Rep("a", 24)
AbsentId == Rep("b", 24)

\* the role the collection holds before the request
SeedRole ==
    [ id |-> SeedId,
      title |-> "Poet",
      description |-> "Writes poems",
      systemPromptText |-> "You are a poet.",
      category |-> "Creative",
      tags |-> <<"poetry">>,
      version |-> 1,
      createdAt |-> IsoTime(1),
      updatedAt |-> IsoTime(1),
      createdBy |-> "llm_onboarding_session" ]

RoleIds == {"", "not-an-id", SeedId, AbsentId}

EmptyObject == JObj([k \in {} |-> Undefined])

UpdateBodies ==
    { JNull, EmptyObject,
      JObj([title |-> JStr("  ")]),
      JObj([title |-> JNum(5)]),
      JObj([title |-> JStr(" Bard ")]),
      JObj([title |-> JStr(LongTitle)]),
      JObj([description |-> JStr("Writes sonnets")]),
      JObj([description |-> JStr("")]),
      JObj([category |-> JStr("Cooking")]),
      JObj([category |-> JStr("Education")]),
      JObj([tags |-> JArr(<<JStr(" Haiku")>>)]),
      JObj([version |-> JNum(7)]),
      JObj([version |-> JNum(0)]),
      JObj([createdBy |-> JStr("mallory")]),
      JObj([createdAt |-> JStr(IsoTime(9))]),
      JObj([isAdmin |-> JStr("yes")]),
      JObj([title |-> JStr("Bard"), version |-> JNum(7)]) }

UpdateRequests ==
    { [roleId |-> r, parses |-> TRUE, body |-> b] :
        r \in RoleIds, b \in UpdateBodies }
    \cup { [roleId |-> r, parses |-> FALSE, body |-> Undefined] : r \in RoleIds }

\* the paths of AiRoleSchema a $set can write; strict mode drops every other
\* key, and the timestamps option takes createdAt out of an update
StringPaths == {"title", "description", "systemPromptText", "category", "createdBy"}
SchemaPaths == StringPaths \cup {"tags", "version"}
SetPaths(body) == DOMAIN body.f \cap SchemaPaths

\* runValidators: the validators of the paths in $set
PathValid(k, v) ==
    CASE k = "title" -> MongoosePath(v, MaxTitleLength)
      [] k = "description" -> MongoosePath(v, MaxDescriptionLength)
      [] k = "systemPromptText" -> MongoosePath(v, MaxSystemPromptLength)
      [] k = "category" -> CastsToString(v) /\ Trim(ToStr(v)) \in Categories
      [] k = "createdBy" -> CastsToString(v) /\ Trim(ToStr(v)) /= ""
      [] k = "version" -> v.t = "number" /\ v.n >= 1
      [] OTHER -> TRUE

UpdateValid(body) == \A k \in SetPaths(body) : PathValid(k, body.f[k])

\* the value a path holds after the cast of the schema
CastPath(k, v) ==
    CASE k \in StringPaths -> Trim(ToStr(v))
      [] k = "tags" -> [i \in 1..Len(v.a) |-> ToLowerCase(Trim(ToStr(v.a[i])))]
      [] OTHER -> v.n

\* { $set: body } applied to a stored document at time at
ApplySet(role, body, at) ==
    [k \in DOMAIN role |->
        IF k \in SetPaths(body) THEN CastPath(k, body.f[k])
        ELSE IF k = "updatedAt" THEN at
        ELSE role[k]]

FindIndexById(coll, rid) ==
    IF \E i \in 1..Len(coll) : coll[i].id = rid
    THEN CHOOSE i \in 1..Len(coll) : coll[i].id = rid
    ELSE 0

PutInit ==
    /\ ureq \in UpdateRequests
    /\ upc = "params"
    /\ roles = <<SeedRole>>
    /\ uresponse = Null
    /\ ulog = ""
    /\ RecipeIdle
    /\ ChatIdle
    /\ GenIdle
    /\ ConcIdle
    /\ PageIdle

PutSend(status, body) ==
    /\ uresponse' = Respond(status, body)
    /\ upc' = "done"
    /\ UNCHANGED ulog

\* the catch block: the error is logged and answered by its name
PutCatch(name, path) ==
    /\ ulog' = name
    /\ upc' = "done"
    /\ uresponse' =
         IF name = "ValidationError"
         THEN Respond(400, [message |-> "Validation failed"])
         ELSE IF name = "CastError" /\ path = "_id"
         THEN Respond(400, [message |-> "Invalid Role ID format"])
         ELSE Respond(500, [message |-> "Failed to update AI role"])

\* if (!roleId)
PutNoRoleId ==
    /\ upc = "params"
    /\ ureq.roleId = ""
    /\ PutSend(400, [message |-> "Role ID is required"])
    /\ UNCHANGED <<ureq, roles>>
    /\ UNCHANGED <<recipeVars, chatVars, genVars, concVars, pageVars>>

PutHasRoleId ==
    /\ upc = "params"
    /\ ureq.roleId /= ""
    /\ upc' = "connect"
    /\ UNCHANGED <<ureq, roles, uresponse, ulog>>
    /\ UNCHANGED <<recipeVars, chatVars, genVars, concVars, pageVars>>

\* await dbConnect() rejects: the generic answer of the catch block
PutConnectFails ==
    /\ upc = "connect"
    /\ PutCatch("MongooseServerSelectionError", "")
    /\ UNCHANGED <<ureq, roles>>
    /\ UNCHANGED <<recipeVars, chatVars, genVars, concVars, pageVars>>

\* await dbConnect() resolves and the body is read and checked
PutBodyUnreadable ==
    /\ upc = "connect"
    /\ IF ureq.parses THEN ureq.body = JNull ELSE TRUE
    /\ PutCatch(IF ureq.parses THEN "TypeError" ELSE "SyntaxError", "")
    /\ UNCHANGED <<ureq, roles>>
    /\ UNCHANGED <<recipeVars, chatVars, genVars, concVars, pageVars>>

PutEmptyBody ==
    /\ upc = "connect"
    /\ ureq.parses /\ ureq.body /= JNull
    /\ DOMAIN ureq.body.f = {}
    /\ PutSend(400, [message |-> "Request body cannot be empty"])
    /\ UNCHANGED <<ureq, roles>>
    /\ UNCHANGED <<recipeVars, chatVars, genVars, concVars, pageVars>>

BadTitle(body) ==
    /\ "title" \in DOMAIN body.f
    /\ body.f.title.t /= "undefined"
    /\ IF body.f.title.t = "string" THEN Trim(body.f.title.s) = "" ELSE TRUE

PutBadTitle ==
    /\ upc = "connect"
    /\ ureq.parses /\ ureq.body /= JNull
    /\ DOMAIN ureq.body.f /= {}
    /\ BadTitle(ureq.body)
    /\ PutSend(400, [message |-> "Title must be a non-empty string"])
    /\ UNCHANGED <<ureq, roles>>
    /\ UNCHANGED <<recipeVars, chatVars, genVars, concVars, pageVars>>

PutBodyAccepted ==
    /\ upc = "connect"
    /\ ureq.parses /\ ureq.body /= JNull
    /\ DOMAIN ureq.body.f /= {}
    /\ ~BadTitle(ureq.body)
    /\ upc' = "update"
    /\ UNCHANGED <<ureq, roles, uresponse, ulog>>
    /\ UNCHANGED <<recipeVars, chatVars, genVars, concVars, pageVars>>

\* findByIdAndUpdate throws before it writes: the cast of the id, then the
\* validators of the update
PutCastError ==
    /\ upc = "update"
    /\ ~ValidObjectId(ureq.roleId)
    /\ PutCatch("CastError", "_id")
    /\ UNCHANGED <<ureq, roles>>
    /\ UNCHANGED <<recipeVars, chatVars, genVars, concVars, pageVars>>

PutValidationError ==
    /\ upc = "update"
    /\ ValidObjectId(ureq.roleId)
    /\ ~UpdateValid(ureq.body)
    /\ PutCatch("ValidationError", "")
    /\ UNCHANGED <<ureq, roles>>
    /\ UNCHANGED <<recipeVars, chatVars, genVars, concVars, pageVars>>

\* the database fails the command
PutUpdateRejects ==
    /\ upc = "update"
    /\ ValidObjectId(ureq.roleId)
    /\ UpdateValid(ureq.body)
    /\ PutCatch("MongoNetworkError", "")
    /\ UNCHANGED <<ureq, roles>>
    /\ UNCHANGED <<recipeVars, chatVars, genVars, concVars, pageVars>>

PutNotFound ==
    /\ upc = "update"
    /\ ValidObjectId(ureq.roleId)
    /\ UpdateValid(ureq.body)
    /\ FindIndexById(roles, ureq.roleId) = 0
    /\ PutSend(404, [message |-> "AI Role not found"])
    /\ UNCHANGED <<ureq, roles>>
    /\ UNCHANGED <<recipeVars, chatVars, genVars, concVars, pageVars>>

\* the document is found: $set is applied and the new document is returned
PutUpdated ==
    /\ upc = "update"
    /\ ValidObjectId(ureq.roleId)
    /\ UpdateValid(ureq.body)
    /\ FindIndexById(roles, ureq.roleId) /= 0
    /\ LET i == FindIndexById(roles, ureq.roleId)
           updatedAiRole == ApplySet(roles[i], ureq.body, IsoTime(2))
       IN /\ roles' = [roles EXCEPT ![i] = updatedAiRole]
          /\ PutSend(200, updatedAiRole)
    /\ UNCHANGED ureq
    /\ UNCHANGED <<recipeVars, chatVars, genVars, concVars, pageVars>>

PutNext ==
    \/ PutNoRoleId
    \/ PutHasRoleId
    \/ PutConnectFails
    \/ PutBodyUnreadable
    \/ PutEmptyBody
    \/ PutBadTitle
    \/ PutBodyAccepted
    \/ PutCastError
    \/ PutValidationError
    \/ PutUpdateRejects
    \/ PutNotFound
    \/ PutUpdated

(***************************************************************************)
(* The onboarding page (src/app/onboarding/page.tsx): handleSendMessage on *)
(* the answer of the chat route.                                           *)
(***************************************************************************)
ToastPersisted == "AI Role persisted successfully!"
ToastWarnings == "AI Role has validation warnings. Review data."
ToastErrorObject == "Failed to generate valid AI Role JSON."
ToastNotPersisted == "AI Role generated (fallback/not persisted)."
WarningTitle == "Warning: Invalid LLM Data"

\* if (data.aiRoleJson)
CarriesRole(resp) ==
    /\ resp.status = 200
    /\ "aiRoleJson" \in DOMAIN resp.body
    /\ resp.body.aiRoleJson /= Null

\* the chain of UI feedback for a received role; "none" where no toast is
\* shown: title.startsWith throws on a title that is not a string
FeedbackFor(newAiRole) ==
    IF newAiRole.title.t /= "string" THEN "none"
    ELSE IF /\ newAiRole.id /= ""
            /\ newAiRole.category /= JStr("Error")
            /\ ~StartsWith(newAiRole.title.s, WarningTitle)
         THEN ToastPersisted
    ELSE IF StartsWith(newAiRole.title.s, WarningTitle) THEN ToastWarnings
    ELSE IF newAiRole.category = JStr("Error") THEN ToastErrorObject
    ELSE ToastNotPersisted

\* a response that is not ok is thrown to the catch handler: no role, no toast
ToastFor(resp) ==
    IF CarriesRole(resp) THEN FeedbackFor(resp.body.aiRoleJson) ELSE "none"

\* the .then handlers run on the answer to the current request
PageReceives ==
    /\ cpc = "done"
    /\ response /= Null
    /\ toasts[run] = "unanswered"
    /\ toasts' = [toasts EXCEPT ![run] = ToastFor(response)]
    /\ createdAiRoles' = IF CarriesRole(response)
                         THEN Append(createdAiRoles, response.body.aiRoleJson)
                         ELSE createdAiRoles
    /\ UNCHANGED <<recipeVars, chatVars, genVars, concVars, updVars>>

PageNext == ChatNext \/ PageReceives

(***************************************************************************)
(* The specifications: the parser, the chat route, the generation route.   *)
(***************************************************************************)
SpecRecipe == RecipeInit /\ [][RecipeNext]_vars

SpecChat == ChatInit /\ [][ChatNext]_vars

SpecGenerate == GenInit /\ [][GenNext]_vars

\* one request to either POST endpoint
PostsInit == ChatInit \/ GenInit
PostsNext == ChatNext \/ GenNext
SpecPosts == PostsInit /\ [][PostsNext]_vars

SpecConcurrent == ConcInit /\ [][ConcNext]_vars

SpecUpdate == PutInit /\ [][PutNext]_vars

SpecPage == ChatInit /\ [][PageNext]_vars

Spec == SpecChat

(***************************************************************************)
(* Properties of the chat route (SpecChat).                                *)
(***************************************************************************)
MarkedText(pre, body) == pre \o jsonStartMarker \o body \o jsonEndMarker
JsonBody(v) == "\n" \o JsonText[v] \o "\n"

AllFiveKeys == {"title", "description", "systemPromptText", "category", "tags"}

Answered == cpc = "done" /\ llm = "returned"
Sent200 == response /= Null /\ response.status = 200

\* the tags of a parsed object as strings, lower-cased, in order
ExpectedTags(v) ==
    IF v.f.tags.t = "array"
    THEN [i \in 1..Len(v.f.tags.a) |-> ToLowerCase(ToStr(v.f.tags.a[i]))]
    ELSE <<>>

\* C5: when the model text has both markers in order around valid JSON with
\* all five required fields, aiResponseText is the trimmed text before the
\* start marker and the candidate carries the parsed title, description,
\* systemPromptText and category, the parsed tags lower-cased in order,
\* version 1 and createdBy 'llm_onboarding_session'.
C5_ValidJson ==
    \A pre \in PreTexts, v \in RoleObjects :
        (Answered /\ fullLlmResponse = MarkedText(pre, JsonBody(v))
                  /\ DOMAIN v.f = AllFiveKeys) =>
            /\ Sent200
            /\ response.body.aiResponseText = Trim(pre)
            /\ response.body.aiRoleJson.title = v.f.title
            /\ response.body.aiRoleJson.description = v.f.description
            /\ response.body.aiRoleJson.systemPromptText = v.f.systemPromptText
            /\ response.body.aiRoleJson.category = v.f.category
            /\ response.body.aiRoleJson.tags = ExpectedTags(v)
            /\ response.body.aiRoleJson.version = 1
            /\ response.body.aiRoleJson.createdBy = "llm_onboarding_session"

\* the four string fields are non-empty strings and tags is an array
WellTyped(v) ==
    /\ DOMAIN v.f = AllFiveKeys
    /\ \A k \in AllFiveKeys \ {"tags"} : v.f[k].t = "string" /\ v.f[k].s /= ""
    /\ v.f.tags.t = "array"

\* the limits of the strict schema, on a well-typed object
WithinStrictLimits(v) ==
    /\ Len(v.f.title.s) <= 100
    /\ Len(v.f.description.s) <= 500
    /\ Len(v.f.systemPromptText.s) <= 10000
    /\ v.f.category.s \in { "Productivity", "Creative", "Education", "Development",
                            "Entertainment", "Health & Wellness", "Custom" }

\* C5 as amended: the four string fields must be non-empty strings and tags an
\* array; then the response is 200, description, systemPromptText, category,
\* tags (as lower-cased strings), version and createdBy are as claimed, the
\* title is the parsed title, prefixed with 'Warning: Invalid LLM Data - ' when
\* the candidate fails the strict schema and its category is not 'Error', and
\* aiResponseText is the trimmed text before the start marker when that is not
\* empty, else the 'trouble separating' notice (or the empty string when the
\* title starts with 'Error:').
C5_ValidJsonAmended ==
    \A pre \in PreTexts, v \in RoleObjects :
        (Answered /\ fullLlmResponse = MarkedText(pre, JsonBody(v)) /\ WellTyped(v)) =>
            /\ Sent200
            /\ response.body.aiResponseText =
                  IF Trim(pre) /= "" THEN Trim(pre)
                  ELSE IF StartsWith(v.f.title.s, "Error:") THEN ""
                  ELSE "Received a response from the AI, but had trouble separating the conversational part."
            /\ response.body.aiRoleJson.title =
                  IF WithinStrictLimits(v) \/ v.f.category.s = "Error" THEN v.f.title
                  ELSE JStr("Warning: Invalid LLM Data - " \o v.f.title.s)
            /\ response.body.aiRoleJson.description = v.f.description
            /\ response.body.aiRoleJson.systemPromptText = v.f.systemPromptText
            /\ response.body.aiRoleJson.category = v.f.category
            /\ response.body.aiRoleJson.tags = ExpectedTags(v)
            /\ response.body.aiRoleJson.version = 1
            /\ response.body.aiRoleJson.createdBy = "llm_onboarding_session"

\* C5 witness: the example of the specification's kind has been answered
\* after a successful insert
C5_Witness ==
    /\ Answered /\ Sent200 /\ dbOutcome = "saved"
    /\ fullLlmResponse = MarkedText("Sounds fun!\n", JsonBody(JObj(BaseRole)))
    /\ response.body.aiRoleJson.tags = <<"fun", "ai bots">>

\* the texts between the markers that are no valid JSON, or valid JSON that
\* lacks a required field
BadBodies ==
    { "", "\n{oops\n", "{\"title\":\"" \o Rep("x", 600) }
    \cup { JsonBody(v) : v \in {JNull, JNum(5), JObj(Without(BaseRole, "tags")),
                                JObj(Without(BaseRole, "description"))} }

Echoes(full) ==
    { "AI response received, but AI Role JSON was malformed. Raw LLM output (first 500 chars): "
        \o Substring(full, 0, 500) \o "...",
      "AI response received, but AI Role JSON was incomplete. Raw LLM output (first 500 chars): "
        \o Substring(full, 0, 500) \o "..." }

IsErrorRecord(role) ==
    /\ role.category = JStr("Error")
    /\ role.title.t = "string" /\ StartsWith(role.title.s, "Error:")

\* C6: with both markers in order around text that is no valid JSON or lacks
\* a required field, the candidate has category 'Error' and a title beginning
\* with 'Error:', and aiResponseText is the notice wrapping the first 500
\* characters of the raw response.
C6_ErrorEcho ==
    \A pre \in PreTexts, body \in BadBodies :
        (Answered /\ fullLlmResponse = MarkedText(pre, body)) =>
            /\ Sent200
            /\ IsErrorRecord(response.body.aiRoleJson)
            /\ response.body.aiResponseText \in Echoes(fullLlmResponse)

\* C6 as amended: the candidate is as claimed; aiResponseText is the trimmed
\* text before the start marker when that text is not empty, and the notice
\* wrapping the first 500 characters of the raw response only when it is empty.
C6_ErrorEchoAmended ==
    \A pre \in PreTexts, body \in BadBodies :
        (Answered /\ fullLlmResponse = MarkedText(pre, body)) =>
            /\ Sent200
            /\ IsErrorRecord(response.body.aiRoleJson)
            /\ Trim(pre) /= "" => response.body.aiResponseText = Trim(pre)
            /\ Trim(pre) = "" => response.body.aiResponseText \in Echoes(fullLlmResponse)

\* C6 witness: a response longer than 500 characters, with nothing before the
\* start marker and malformed JSON, has been answered with the truncated echo
C6_Witness ==
    /\ Answered /\ Sent200
    /\ Len(fullLlmResponse) > 500
    /\ StartsWith(fullLlmResponse, jsonStartMarker)
    /\ Len(response.body.aiResponseText) < Len(fullLlmResponse)
    /\ response.body.aiRoleJson.category = JStr("Error")

\* the positions at which m occurs in s
Occurrences(s, m) == {i \in 0..(Len(s) - Len(m)) : SubSeq(s, i + 1, i + Len(m)) = m}

\* no start marker, or no end marker that begins at or after the end of the
\* first start marker
NoMarkerPair(text) ==
    LET starts == Occurrences(text, "---JSON_START---")
        ends == Occurrences(text, "---JSON_END---")
    IN starts = {} \/ \A e \in ends : e < Min(starts) + 16

Contains(s, m) == Occurrences(s, m) /= {}

\* C7: when the start marker is absent, the end marker is absent, or no end
\* marker lies after the end of the start marker, aiResponseText is the whole
\* model response trimmed and the candidate is the fallback record of category
\* 'Error' whose description carries 'JSON markers not found in LLM response.'
C7_NoMarkers ==
    (Answered /\ NoMarkerPair(fullLlmResponse)) =>
        /\ Sent200
        /\ response.body.aiResponseText = Trim(fullLlmResponse)
        /\ response.body.aiRoleJson.category = JStr("Error")
        /\ Contains(response.body.aiRoleJson.description.s,
                    "JSON markers not found in LLM response.")

\* C7 witness: a response whose end marker overlaps the end of the start
\* marker, and one whose only end marker precedes the start marker, were answered
C7_Witness ==
    /\ Answered /\ Sent200
    /\ \/ fullLlmResponse = "---JSON_START---JSON_END---"
       \/ /\ StartsWith(fullLlmResponse, jsonEndMarker)
          /\ Contains(fullLlmResponse, jsonStartMarker)

\* the repeat of a request has been answered after the same model text and the
\* same insert outcome as the first run
SameRunTwice ==
    /\ run = "repeat" /\ Answered
    /\ message = prev.message
    /\ fullLlmResponse = prev.fullLlmResponse
    /\ dbOutcome = prev.dbOutcome

\* C8: two runs of the splitter on the same model text and user message, with
\* the insert outcome held equal, return identical output, the candidate's id
\* and createdAt included.
C8_Deterministic == SameRunTwice => response = prev.response

WithoutIdAndTime(role) ==
    [k \in (DOMAIN role) \ {"id", "createdAt"} |-> role[k]]

\* C8 as amended: the two runs return the same status, the same aiResponseText
\* and the same candidate except for its id and createdAt, which come from the
\* clock and the random draw of each run (or from the store after a successful
\* insert).
C8_DeterministicAmended ==
    SameRunTwice =>
        /\ response.status = prev.response.status
        /\ DOMAIN response.body = DOMAIN prev.response.body
        /\ Sent200 =>
              /\ response.body.aiResponseText = prev.response.body.aiResponseText
              /\ WithoutIdAndTime(response.body.aiRoleJson)
                    = WithoutIdAndTime(prev.response.body.aiRoleJson)
        /\ ~Sent200 => response = prev.response

\* C8 witness: the two runs returned candidates that differ (in id or createdAt)
C8_Witness ==
    /\ SameRunTwice /\ Sent200
    /\ response.body.aiRoleJson /= prev.response.body.aiRoleJson

\* C9: for a request that passes the validation with the API key set, the
\* status is 200 whatever the model text and the insert outcome, and 500
\* exactly when the model call or its stream throws.
C9_StatusOnlyModelFailure ==
    (cpc = "done" /\ creq.parses /\ ValidationError(creq) = Null /\ apiKey) =>
        /\ response.status \in {200, 500}
        /\ response.status = 500 <=> llm = "threw"

InsertFailed == dbOutcome \in {"connectFailed", "createFailed"}

\* C10: a failed connection or insert is swallowed: the failure leaves the
\* conversational text and the candidate as they were just before the insert
\* was attempted, nothing alters them before the response is sent, and the
\* response is 200 and carries exactly them, the candidate keeping its
\* temporary id.
C10_InsertFailureSwallowed ==
    /\ [][ ((cpc = "insert" /\ dbOutcome' \in {"connectFailed", "createFailed"})
            \/ cpc = "respond")
           => /\ finalAiRoleJson' = finalAiRoleJson
              /\ conversationalText' = conversationalText ]_vars
    /\ []( (cpc = "done" /\ InsertFailed) =>
             /\ response = [ status |-> 200,
                             body |-> [ aiResponseText |-> conversationalText,
                                        aiRoleJson |-> finalAiRoleJson ] ]
             /\ StartsWith(finalAiRoleJson.id, "tmp-") )

\* C10 witness: a candidate whose title was prefixed by the strict schema has
\* been returned after a failed insert
C10_Witness ==
    /\ cpc = "done" /\ InsertFailed /\ Sent200
    /\ StartsWith(response.body.aiRoleJson.title.s, "Warning: Invalid LLM Data - ")
    /\ StartsWith(response.body.aiRoleJson.id, "tmp-")

\* C11: when the insert succeeds, the returned candidate's id and createdAt
\* are those of the document the store has just added, every other field of
\* the candidate is what it was when the insert was attempted, and the
\* response is 200 and carries that candidate.
C11_InsertSuccess ==
    /\ [][ (cpc = "insert" /\ dbOutcome' = "saved") =>
             /\ Len(store') = Len(store) + 1
             /\ finalAiRoleJson'.id = store'[Len(store')].id
             /\ finalAiRoleJson'.createdAt = store'[Len(store')].createdAt
             /\ WithoutIdAndTime(finalAiRoleJson') = WithoutIdAndTime(finalAiRoleJson)
             /\ conversationalText' = conversationalText ]_vars
    /\ []( (cpc = "done" /\ dbOutcome = "saved") =>
             /\ response = [ status |-> 200,
                             body |-> [ aiResponseText |-> conversationalText,
                                        aiRoleJson |-> finalAiRoleJson ] ]
             /\ finalAiRoleJson.id = store[Len(store)].id
             /\ finalAiRoleJson.createdAt = store[Len(store)].createdAt )

\* C11 witness: a second document has been stored and its id returned in
\* place of the temporary one
C11_Witness ==
    /\ cpc = "done" /\ dbOutcome = "saved" /\ Sent200
    /\ Len(store) = 2
    /\ response.body.aiRoleJson.id = "oid-2"
    /\ response.body.aiRoleJson.createdBy = "llm_onboarding_session"

InsertAttempted == dbOutcome /= "none"

\* C12: an insert is attempted if and only if the candidate's category is not
\* 'Error'; no record of category 'Error' is ever in the store; and every
\* candidate that passed the structural check is submitted for insertion.
C12_InsertIffNotError ==
    /\ Answered => (InsertAttempted <=> finalAiRoleJson.category /= JStr("Error"))
    /\ \A i \in 1..Len(store) : store[i].category /= "Error"
    /\ \A pre \in PreTexts, v \in RoleObjects :
         (Answered /\ fullLlmResponse = MarkedText(pre, JsonBody(v))
                   /\ HasRequiredFields(v)) => InsertAttempted

(***************************************************************************)
(* Properties of the two POST endpoints (SpecPosts, SpecGenerate).         *)
(***************************************************************************)
\* the shape constraints on a chat request, as the interface states them
MessageViolates(m) == m.t /= "string" \/ Trim(m.s) = "" \/ Len(m.s) > 2000

TurnViolates(turn) ==
    \/ turn.t /= "object"
    \/ "role" \notin DOMAIN turn.f \/ turn.f.role \notin {JStr("user"), JStr("model")}
    \/ "parts" \notin DOMAIN turn.f \/ turn.f.parts.t /= "array"
    \/ turn.f.parts.a = <<>>
    \/ turn.f.parts.a[1].t /= "object"
    \/ "text" \notin DOMAIN turn.f.parts.a[1].f
    \/ turn.f.parts.a[1].f.text.t /= "string"
    \/ Len(turn.f.parts.a[1].f.text.s) > 2000

HistoryViolates(h) ==
    /\ h.t /= "undefined"
    /\ h.t /= "array" \/ \E i \in 1..Len(h.a) : TurnViolates(h.a[i])

ChatShapeViolated ==
    /\ cpc = "done" /\ creq.parses
    /\ MessageViolates(creq.message) \/ HistoryViolates(creq.conversationHistory)

\* the shape constraints on a recipe request
PromptViolates(body) ==
    \/ body.t /= "object"
    \/ "prompt" \notin DOMAIN body.f
    \/ body.f.prompt.t /= "string"
    \/ body.f.prompt.s = ""
    \/ Len(body.f.prompt.s) > 500

GenShapeViolated == gpc = "done" /\ greq.parses /\ PromptViolates(greq.body)

NoChatCalls == llm = "none" /\ fullLlmResponse = "" /\ dbOutcome = "none"
NoGenCalls == textCall = "none" /\ imageCall = "none"

GenFailure ==
    \/ ~greq.parses
    \/ PromptViolates(greq.body)
    \/ ~genApiKey
    \/ textCall = "threw"
    \/ imageCall = "threw"

\* the image call returned no image
NoImage ==
    /\ imageCall = "returned"
    /\ \/ "generatedImages" \notin DOMAIN imgRes.f
       \/ imgRes.f.generatedImages.a = <<>>

\* C14: the recipe endpoint ends in 200 with a body of title, ingredients,
\* steps and imageBase64, or in 500 with a body of an error string only; every
\* failure (unreadable body, invalid prompt, missing key, text-model error,
\* image-model error) ends in 500, everything else in 200; an image call that
\* returns no image gives 200 with imageBase64 = "".
C14_TwoOutcomes ==
    gpc = "done" =>
        /\ gresponse.status \in {200, 500}
        /\ gresponse.status = 500 <=> GenFailure
        /\ gresponse.status = 500 =>
             /\ DOMAIN gresponse.body = {"error"}
             /\ gresponse.body.error \in {"Generation failed", "Missing API key"}
        /\ gresponse.status = 200 =>
             /\ DOMAIN gresponse.body = {"title", "ingredients", "steps", "imageBase64"}
             /\ gresponse.body.title = recipe.title
             /\ gresponse.body.ingredients = recipe.ingredients
             /\ gresponse.body.steps = recipe.steps
             /\ gresponse.body.imageBase64 \in {"", "iVBORw0KGgo="}
        /\ NoImage => (gresponse.status = 200 /\ gresponse.body.imageBase64 = "")

\* C14 witness: a parsed recipe has been returned with an empty image after an
\* image call that gave no image
C14_Witness ==
    /\ gpc = "done" /\ NoImage
    /\ gresponse.status = 200
    /\ gresponse.body.title = "Pie"
    /\ gresponse.body.ingredients = <<"Butter", "Lard">>
    /\ gresponse.body.imageBase64 = ""

\* the prompt of the model call has been built
PromptBuilt ==
    \/ cpc \in {"llm", "split", "zod", "insert", "respond"}
    \/ cpc = "done" /\ llm /= "none"

\* the turns of the request's history
RequestTurns ==
    IF creq.conversationHistory.t = "array" THEN creq.conversationHistory.a ELSE <<>>

TurnLine(turn) ==
    (IF turn.f.role = JStr("user") THEN "User" ELSE "AI") \o ": "
    \o RemoveChars(turn.f.parts.a[1].f.text.s, {"<", ">"})

\* C15: for a valid history of n turns the prompt holds exactly the last
\* min(n, 20) turns in their original order: none of the last 20 is dropped,
\* and when n > 20 the first n - 20 are.
C15_LastTwentyTurns ==
    PromptBuilt =>
        LET h == RequestTurns
            n == Len(h)
            k == IF n < 20 THEN n ELSE 20
        IN /\ Len(conversationHistory) = k
           /\ \A i \in 1..k :
                /\ JStr(conversationHistory[i].role) = h[n - k + i].f.role
                /\ conversationHistory[i].text =
                     RemoveChars(h[n - k + i].f.parts.a[1].f.text.s, {"<", ">"})
           /\ formattedHistory = Join([i \in 1..k |-> TurnLine(h[n - k + i])], "\n")

\* C15 witness: a history of 23 turns has been cut to its turns 4 to 23
C15_Witness ==
    /\ PromptBuilt
    /\ Len(RequestTurns) = 23
    /\ Len(conversationHistory) = 20
    /\ conversationHistory[1].text = "t4"
    /\ conversationHistory[20].text = "t23"
    /\ StartsWith(formattedHistory, "AI: t4\nUser: t5\n")

\* the position of a stage in the chain of the chat handler
Stage(pc) ==
    CASE pc = "validate" -> 1 [] pc = "config" -> 2 [] pc = "llm" -> 3
      [] pc = "split" -> 4 [] pc = "zod" -> 5 [] pc = "insert" -> 6
      [] pc = "respond" -> 7 [] pc = "done" -> 8 [] OTHER -> 0

\* a step of one request moves forward in the chain, calls the model only if
\* it has not been called, attempts the insert only if none was attempted,
\* and sends a response only if none was sent, and then ends the request
ForwardStep ==
    /\ Stage(cpc') > Stage(cpc)
    /\ llm' /= llm => llm = "none"
    /\ fullLlmResponse' /= fullLlmResponse => llm = "none"
    /\ dbOutcome' /= dbOutcome => (dbOutcome = "none" /\ cpc = "insert")
    /\ store' /= store => (dbOutcome = "none" /\ Len(store') = Len(store) + 1)
    /\ response' /= response => response = Null
    /\ cpc' = "done" <=> response' /= Null

\* in every stage before the end, the condition of one of the stage's
\* branches holds
SomeBranchOpen ==
    CASE cpc = "validate" ->
           \/ ~creq.parses
           \/ creq.parses /\ (MessageViolates(creq.message)
                              \/ HistoryViolates(creq.conversationHistory))
           \/ creq.parses /\ ~MessageViolates(creq.message)
                          /\ ~HistoryViolates(creq.conversationHistory)
      [] cpc = "config" -> apiKey \in BOOLEAN
      [] cpc = "llm" -> run = "first" \/ prev.fullLlmResponse \in LlmTexts
      [] cpc = "split" -> fullLlmResponse \in LlmTexts
      [] cpc = "zod" -> finalAiRoleJson /= Null /\ finalAiRoleJson.category /= JStr("Error")
      [] cpc = "insert" -> dbOutcome = "none"
      [] cpc = "respond" -> finalAiRoleJson /= Null
      [] OTHER -> FALSE

OwnAnswer(h) ==
    IF h.kind = "recipe"
    THEN IF ~BodySchemaAccepts(h.body) \/ h.modelCall = "threw" \/ h.imageCall = "threw"
         THEN Respond(500, GenFailed)
         ELSE LET rec == ParsedOf[h.modelText]
              IN Respond(200, [ title |-> rec.title, ingredients |-> rec.ingredients,
                                steps |-> rec.steps, imageBase64 |-> h.imageBase64 ])
    ELSE IF ValidationError(h.body) /= Null THEN ValidationError(h.body)
    ELSE IF h.modelCall = "threw"
    THEN Respond(500,
           [ aiResponseText |-> "Error communicating with AI model: fetch failed",
             aiRoleJson |-> mockFallbackAiRole("LLM call failed: fetch failed",
                                               sanitizeInput(h.body.message.s), 1, h.rnd) ])
    ELSE LET a == AfterLlmOf[h.modelText, sanitizeInput(h.body.message.s), h.rnd]
         IN IF a.threw THEN Respond(500, UnexpectedError)
            ELSE Respond(200,
                   [ aiResponseText |-> a.text,
                     aiRoleJson |-> IF h.dbOutcome = "saved"
                                    THEN [a.role EXCEPT !.id = h.saved.id,
                                                        !.createdAt = h.saved.createdAt]
                                    ELSE a.role ])

\* the document an invocation saved is the one made of its own candidate
OwnDocument(h) ==
    h.dbOutcome = "saved" =>
      /\ h.saved = StoredDocument(
                     AfterLlmOf[h.modelText, sanitizeInput(h.body.message.s), h.rnd].role,
                     h.saved.id, h.saved.createdAt)
      /\ \E i \in 1..Len(aiRoles) : aiRoles[i] = h.saved

\* C17: requests in flight together do not interfere: in every interleaving
\* the status and body of each response are what the request's own body, the
\* results of its own model calls and the result of its own insert make them
\* (the temporary id's random draw counted with the request), the document a
\* request saved is the one of its own candidate, and a step of one
\* invocation leaves the locals of every other invocation as they were.
C17_NoInterference ==
    /\ []( \A r \in DOMAIN handlers :
             /\ handlers[r].pc = "done" => handlers[r].response = OwnAnswer(handlers[r])
             /\ OwnDocument(handlers[r]) )
    /\ [][ \A r, q \in DOMAIN handlers :
             (r /= q /\ handlers'[r] /= handlers[r]) => handlers'[q] = handlers[q] ]_vars

\* C17 witness: two chat requests were in flight together, the first awaited a
\* connect attempt that was rejected and answered with its unsaved candidate,
\* the second saved its own, different candidate
C17_Witness ==
    /\ DOMAIN handlers = Handlers
    /\ \A r \in Handlers : handlers[r].pc = "done" /\ handlers[r].kind = "chat"
    /\ handlers[1].dbOutcome = "connectFailed"
    /\ handlers[2].dbOutcome = "saved"
    /\ handlers[1].modelText /= handlers[2].modelText
    /\ handlers[1].response.status = 200 /\ handlers[2].response.status = 200
    /\ Len(connects) = 2

(***************************************************************************)
(* Properties of parseRecipe (SpecRecipe): routing, titles, sections.      *)
(***************************************************************************)
\* the header a line is, by its prefix as the version matches it and in the
\* order title:, ingredients, steps; "none" for a line that is no header
HeaderKind(ver, line) ==
    LET shown == ToLowerCase(Clean(ver, line))
    IN IF StartsWith(shown, "title:") THEN "title"
       ELSE IF StartsWith(shown, "ingredients") THEN "ingredients"
       ELSE IF StartsWith(shown, "steps") THEN "steps"
       ELSE "none"

\* the kind of the last header line among the first n lines, "none" without one
RecentHeader(ver, ls, n) ==
    LET hs == {i \in 1..n : HeaderKind(ver, ls[i]) /= "none"}
    IN IF hs = {} THEN "none" ELSE HeaderKind(ver, ls[Max(hs)])

\* list after is list before with one element appended
Appended(before, after) ==
    Len(after) = Len(before) + 1 /\ SubSeq(after, 1, Len(before)) = before

\* C18: mode routing.  The iteration over a line that is no header appends it
\* to ingredients exactly when the last header line before it is an
\* ingredients header, to steps exactly when that is a steps header, and to
\* neither list when there is no header before it or the last one is a title:
\* line; the iteration over a header line appends to neither list; a list
\* that is not appended to is left as it is.
C18_ModeRouting ==
    [][ (rpc = "loop" /\ idx' = idx + 1) =>
          LET kind == HeaderKind(version, lines[idx])
              recent == RecentHeader(version, lines, idx - 1)
          IN /\ Appended(ingredients, ingredients')
                  <=> (kind = "none" /\ recent = "ingredients")
             /\ Appended(steps, steps') <=> (kind = "none" /\ recent = "steps")
             /\ ~Appended(ingredients, ingredients') => ingredients' = ingredients
             /\ ~Appended(steps, steps') => steps' = steps ]_vars

\* C18 witness: a line after an ingredients header and then a title: line has
\* been read, and both lists are empty at the end
C18_Witness ==
    /\ rpc = "done" /\ Len(lines) = 3
    /\ HeaderKind(version, lines[1]) = "ingredients"
    /\ HeaderKind(version, lines[2]) = "title"
    /\ HeaderKind(version, lines[3]) = "none"
    /\ result.ingredients = <<>> /\ result.steps = <<>>

\* the positions of the title: lines
TitleLines(ver, ls) == {i \in 1..Len(ls) : HeaderKind(ver, ls[i]) = "title"}

\* what follows the colon of a title: line, trimmed
TitleText(ver, line) == Trim(Slice(Clean(ver, line), Len("title:")))

\* C19: when the text has title: lines, several of them included, the title
\* returned is the trimmed text after the colon of the last one in document
\* order, whatever sections stand before, between and after them.
C19_LastTitleWins ==
    (rpc = "done" /\ TitleLines(version, lines) /= {}) =>
        result.title = TitleText(version, lines[Max(TitleLines(version, lines))])

\* C19 witness: two title: lines with different texts and a section between
\* them have been read, and the second one's text is returned
C19_Witness ==
    /\ rpc = "done"
    /\ \E i, j \in TitleLines(version, lines) :
         /\ i < j /\ j = Max(TitleLines(version, lines))
         /\ TitleText(version, lines[i]) /= TitleText(version, lines[j])
         /\ \E k \in (i + 1)..(j - 1) : HeaderKind(version, lines[k]) = "ingredients"
         /\ result.title = TitleText(version, lines[j])
    /\ result.ingredients /= <<>>

\* the positions of the lines under headers of one kind, in document order
SectionLines(ver, ls, kind) ==
    SelectSeq([i \in 1..Len(ls) |-> i],
              LAMBDA i : /\ HeaderKind(ver, ls[i]) = "none"
                         /\ RecentHeader(ver, ls, i - 1) = kind)

\* the content of all sections of one kind, one after the other, each line as
\* it is pushed (bullet or step number taken off)
SectionContent(ver, ls, kind) ==
    LET at == SectionLines(ver, ls, kind)
    IN [j \in 1..Len(at) |->
          IF kind = "ingredients" THEN StripBullet(Clean(ver, ls[at[j]]))
          ELSE StripNumber(Clean(ver, ls[at[j]]))]

IsPrefix(before, after) ==
    Len(before) <= Len(after) /\ SubSeq(after, 1, Len(before)) = before

\* the headers of one kind that have a line of content right after them
FilledHeaders(ver, ls, kind) ==
    {i \in 1..(Len(ls) - 1) : HeaderKind(ver, ls[i]) = kind
                               /\ HeaderKind(ver, ls[i + 1]) = "none"}

\* C20: repeated section headers.  Each list returned is the concatenation, in
\* document order, of the content of all sections of its kind, and no step of
\* the parser (re-entering a section included) removes or replaces an element
\* a list already holds.
C20_SectionsConcatenate ==
    /\ []( rpc = "done" =>
             /\ result.ingredients = SectionContent(version, lines, "ingredients")
             /\ result.steps = SectionContent(version, lines, "steps") )
    /\ [][ IsPrefix(ingredients, ingredients') /\ IsPrefix(steps, steps') ]_vars

\* C20 witness: an ingredients section, a steps section and a second
\* ingredients section, each with content, have been read: the ingredients
\* list holds the lines of the first and then of the second
C20_Witness ==
    /\ rpc = "done"
    /\ \E i, k \in FilledHeaders(version, lines, "ingredients") :
         \E j \in FilledHeaders(version, lines, "steps") : i < j /\ j < k
    /\ Len(result.ingredients) = 2
    /\ result.ingredients[1] /= result.ingredients[2]
    /\ Len(result.steps) = 1

(***************************************************************************)
(* Properties of the chat route (SpecChat): the candidate and its checks.  *)
(***************************************************************************)
\* one of the four fields is missing or no string, or tags is no array
Mistyped(v) ==
    \/ \E k \in AllFiveKeys \ {"tags"} : k \notin DOMAIN v.f \/ v.f[k].t /= "string"
    \/ "tags" \notin DOMAIN v.f
    \/ v.f.tags.t /= "array"

MissingFieldsDescription ==
    JStr("Failed to generate AI Role. Generated JSON missing required fields.")

\* C21: the structural check.  When the JSON between the markers parses to an
\* object in which title, description, systemPromptText or category is missing
\* or no string, or tags is no array, the answer carries the fallback record
\* (category 'Error', the description saying 'Generated JSON missing required
\* fields.') and nothing is inserted; a candidate built from the model's JSON
\* is returned only when all four are strings and tags is an array.
C21_StructuralCheck ==
    \A pre \in PreTexts, v \in RoleObjects :
        (Answered /\ fullLlmResponse = MarkedText(pre, JsonBody(v))) =>
            /\ Mistyped(v) =>
                 /\ Sent200
                 /\ IsErrorRecord(response.body.aiRoleJson)
                 /\ response.body.aiRoleJson.description = MissingFieldsDescription
                 /\ dbOutcome = "none"
            /\ (Sent200 /\ response.body.aiRoleJson.createdBy = "llm_onboarding_session")
                 => ~Mistyped(v)

\* the object has the other four required fields, and the empty string as
\* its category
EmptyCategory(v) ==
    /\ DOMAIN v.f = AllFiveKeys
    /\ \A k \in {"title", "description", "systemPromptText"} :
          v.f[k].t = "string" /\ v.f[k].s /= ""
    /\ v.f.tags.t = "array"
    /\ v.f.category = JStr("")

\* C22: when the parsed JSON has the other four required fields and the empty
\* string as category, the answer carries a candidate built from the JSON with
\* category 'Custom', no fallback record, and the insert was attempted.
C22_EmptyCategoryCustom ==
    \A pre \in PreTexts, v \in RoleObjects :
        (Answered /\ fullLlmResponse = MarkedText(pre, JsonBody(v)) /\ EmptyCategory(v)) =>
            /\ Sent200
            /\ response.body.aiRoleJson.category = JStr("Custom")
            /\ response.body.aiRoleJson.title = v.f.title
            /\ response.body.aiRoleJson.createdBy = "llm_onboarding_session"
            /\ dbOutcome /= "none"

\* the object passes the structural check: the four fields are there and
\* truthy, tags is an array
PassesStructural(v) ==
    /\ DOMAIN v.f = AllFiveKeys
    /\ \A k \in AllFiveKeys \ {"tags"} : Truthy(v.f[k])
    /\ v.f.tags.t = "array"

\* the strict schema as the claim words it: strings within their limits, a
\* category of the seven, every tag a string
StrictOK(v) ==
    /\ WellTyped(v)
    /\ WithinStrictLimits(v)
    /\ \A i \in 1..Len(v.f.tags.a) : v.f.tags.a[i].t = "string"

\* C23: warn, do not reject.  A candidate that passes the structural check and
\* fails the strict schema is answered with 200, its title prefixed once with
\* 'Warning: Invalid LLM Data - ', and the insert was attempted with the
\* prefixed title; a candidate that passes the strict schema keeps its title.
C23_WarnNotReject ==
    \A pre \in PreTexts, v \in RoleObjects :
        (Answered /\ fullLlmResponse = MarkedText(pre, JsonBody(v)) /\ PassesStructural(v)) =>
            /\ Sent200
            /\ StrictOK(v) => response.body.aiRoleJson.title = v.f.title
            /\ ~StrictOK(v) =>
                 /\ response.body.aiRoleJson.title =
                       JStr("Warning: Invalid LLM Data - " \o ToStr(v.f.title))
                 /\ dbOutcome /= "none"
                 /\ dbOutcome = "saved" =>
                       store[Len(store)].title =
                          Trim("Warning: Invalid LLM Data - " \o ToStr(v.f.title))

\* the texts between the markers on which JSON.parse fails or the structural
\* check fails: no JSON, JSON cut short, null, a number, an object without a
\* required field or with an empty one
FailingBodies ==
    BadBodies
    \cup { JsonBody(JObj([BaseRole EXCEPT !.title = JStr("")])),
           JsonBody(JObj([BaseRole EXCEPT !.category = JStr("")])),
           JsonBody(JObj([BaseRole EXCEPT !.tags = JStr("fun")])) }

MalformedEcho(full) ==
    "AI response received, but AI Role JSON was malformed. Raw LLM output (first 500 chars): "
    \o Substring(full, 0, 500) \o "..."

IncompleteEcho(full) ==
    "AI response received, but AI Role JSON was incomplete. Raw LLM output (first 500 chars): "
    \o Substring(full, 0, 500) \o "..."

\* C24: with both markers present and a parse failure or a missing-field
\* failure between them, aiResponseText is the trimmed text before the start
\* marker when that text is not empty, and only when it is empty the fixed
\* notice (malformed or incomplete) followed by the first 500 characters of
\* the raw response and '...'; it is never empty.
C24_TextOrEcho ==
    \A pre \in PreTexts, body \in FailingBodies :
        (Answered /\ fullLlmResponse = MarkedText(pre, body)) =>
            /\ Sent200
            /\ response.body.aiResponseText /= ""
            /\ response.body.aiResponseText =
                 IF Trim(pre) /= "" THEN Trim(pre)
                 ELSE IF response.body.aiRoleJson.description
                           = MissingFieldsDescription
                      THEN IncompleteEcho(fullLlmResponse)
                      ELSE MalformedEcho(fullLlmResponse)

\* C24 witness: an object with an empty category after 'Sounds fun!' has been
\* answered with 'Sounds fun!' and the missing-fields fallback record
C24_Witness ==
    /\ Answered /\ Sent200
    /\ fullLlmResponse
         = MarkedText("Sounds fun!\n", JsonBody(JObj([BaseRole EXCEPT !.category = JStr("")])))
    /\ response.body.aiResponseText = "Sounds fun!"
    /\ response.body.aiRoleJson.description = MissingFieldsDescription

(***************************************************************************)
(* Properties of both POST handlers (SpecPosts): the order of the calls.   *)
(***************************************************************************)
\* C25: within one request the external calls come one after the other.  In
\* the recipe handler the image call is started only by the step in which the
\* text call returns and its text is parsed, the two are never in flight
\* together, and no image call is made after a failed text call.  In the chat
\* handler the insert is reached only with the model stream read to its end,
\* never after a failed model call, and after a failed insert the request
\* makes no further model call.
C25_SequentialCalls ==
    /\ []( imageCall /= "none" =>
             (textCall = "returned" /\ recipe = parseRecipe(gversion, rawText)) )
    /\ []( ~(textCall = "inflight" /\ imageCall = "inflight") )
    /\ []( textCall = "threw" => imageCall = "none" )
    /\ [][ (imageCall = "none" /\ imageCall' /= "none") =>
             (textCall = "inflight" /\ textCall' = "returned"
                /\ imageCall' = "inflight") ]_vars
    /\ []( (cpc = "insert" \/ dbOutcome /= "none") => llm = "returned" )
    /\ []( llm = "threw" => (dbOutcome = "none" /\ store = <<>>) )
    /\ [][ store' /= store => (llm = "returned" /\ cpc = "insert") ]_vars
    /\ [][ (InsertFailed /\ run' = run) =>
             (llm' = llm /\ fullLlmResponse' = fullLlmResponse /\ cpc' /= "llm") ]_vars

\* C25 witness: the recipe handler has its image call in flight, the text call
\* has returned and its text is parsed into a recipe with ingredients
C25_Witness ==
    /\ gpc = "image" /\ textCall = "returned" /\ imageCall = "inflight"
    /\ recipe /= Null /\ Len(recipe.ingredients) > 0
    /\ gresponse = Null

(***************************************************************************)
(* Properties of dbConnect (SpecConcurrent).                               *)
(***************************************************************************)
\* the connect attempts in flight
PendingConnects == {i \in 1..Len(connects) : connects[i] = "pending"}

\* handler r calls dbConnect() in this step
CallsDbConnect(r) == handlers[r].pc = "llm" /\ handlers'[r].pc = "connect"

\* C26: dbConnect prevents multiple connections.  Under every interleaving of
\* the invocations at most one connect attempt is in flight; an attempt is
\* started only with no connection and no promise cached; once a connection
\* is cached no connect is issued any more, the cached connection is never
\* replaced, and every call returns it; the cached promise never stays on a
\* rejected attempt, and a call that finds neither connection nor promise
\* starts a new attempt and awaits it.
C26_SingleConnection ==
    /\ []( Cardinality(PendingConnects) <= 1 )
    /\ []( cached.conn /= 0 => (connects[cached.conn] = "resolved" /\ PendingConnects = {}) )
    /\ []( cached.promise /= 0 => connects[cached.promise] /= "rejected" )
    /\ []( \A r \in DOMAIN handlers :
             handlers[r].conn /= 0 => handlers[r].conn = cached.conn )
    /\ [][ cached.conn /= 0 => (connects' = connects /\ cached'.conn = cached.conn) ]_vars
    /\ [][ Len(connects') > Len(connects) => (cached.conn = 0 /\ cached.promise = 0) ]_vars
    /\ [][ \A r \in DOMAIN handlers :
             (CallsDbConnect(r) /\ cached.conn = 0 /\ cached.promise = 0) =>
                /\ connects' = Append(connects, "pending")
                /\ cached'.promise = Len(connects')
                /\ handlers'[r].awaited = Len(connects') ]_vars
    /\ [][ \A r \in DOMAIN handlers :
             (CallsDbConnect(r) /\ cached.conn /= 0) =>
                handlers'[r].conn = cached.conn ]_vars

\* C26 witness: the first attempt was rejected and its promise cleared, and a
\* later call has started the second attempt, now the only one in flight
C26_Witness ==
    /\ connects = <<"rejected", "pending">>
    /\ cached = [conn |-> 0, promise |-> 2]
    /\ \E r \in DOMAIN handlers : handlers[r].dbOutcome = "connectFailed"
    /\ \E r \in DOMAIN handlers : handlers[r].pc = "connect" /\ handlers[r].awaited = 2

(***************************************************************************)
(* Properties of the chat route (SpecChat): the category 'Error'.          *)
(***************************************************************************)
\* the response carries a candidate
HasCandidate == response /= Null /\ "aiRoleJson" \in DOMAIN response.body

\* C28: the category 'Error' identifies the fallback records.  Every candidate
\* returned with category 'Error' is one mockFallbackAiRole made (its title
\* starts with 'Error:', it is created by 'api_error_handler', its tags are
\* error and fallback), and every candidate built from the model's JSON has
\* another category.
C28_ErrorMeansFallback ==
    HasCandidate =>
        LET role == response.body.aiRoleJson
        IN /\ role.category = JStr("Error") =>
                /\ role.title.t = "string" /\ StartsWith(role.title.s, "Error:")
                /\ role.createdBy = "api_error_handler"
                /\ role.tags = <<"error", "fallback">>
           /\ role.createdBy = "llm_onboarding_session" => role.category /= JStr("Error")

(***************************************************************************)
(* Properties of parseRecipe (SpecRecipe): the placeholder title.          *)
(***************************************************************************)
\* the line as written, without its Markdown characters
Undecorate(line) == Trim(RemoveChars(line, Markdown))

\* the positions of the lines that are title: lines once undecorated
WrittenTitleLines(ls) ==
    {i \in 1..Len(ls) : StartsWith(ToLowerCase(Undecorate(ls[i])), "title:")}

\* C30: parseRecipe returns the placeholder 'Untitled Wreck' only when the
\* text has no title: line; when the last title: line has nothing, or only
\* whitespace or Markdown characters, after its colon, the title returned is
\* the empty string.
C30_PlaceholderOnlyWithoutTitle ==
    rpc = "done" =>
        LET at == WrittenTitleLines(lines)
        IN /\ result.title = "Untitled Wreck" => at = {}
           /\ (at /= {} /\ Trim(Slice(Undecorate(lines[Max(at)]), 6)) = "")
                 => result.title = ""

(***************************************************************************)
(* PUT /api/ai-roles/[roleId]: the frame of an update.                     *)
(***************************************************************************)
StoredRole(rid) == roles[FindIndexById(roles, rid)]

\* C27: PUT changes only title, description, systemPromptText, category and
\* tags: the stored role's version, createdBy and createdAt are the same after
\* the update as before, and an update answered 400, 404 or 500 leaves the
\* stored role unchanged.
C27_UpdateFrame ==
    upc = "done" =>
        /\ StoredRole(SeedId).version = SeedRole.version
        /\ StoredRole(SeedId).createdBy = SeedRole.createdBy
        /\ StoredRole(SeedId).createdAt = SeedRole.createdAt
        /\ uresponse.status \in {400, 404, 500} => roles = <<SeedRole>>

(***************************************************************************)
(* Properties of the onboarding page (SpecPage).                           *)
(***************************************************************************)
\* C29: the page shows 'AI Role persisted successfully!' for a received role
\* only if the server's insert of that role succeeded and the role carries the
\* id the store assigned; a role returned after a failed insert, with its
\* temporary id, is never reported as persisted.
C29_PersistedToastMeansSaved ==
    toasts[run] = ToastPersisted =>
        /\ dbOutcome = "saved"
        /\ \E i \in 1..Len(store) : store[i].id = response.body.aiRoleJson.id
====
